---- MODULE Spec2Model ----
(***************************************************************************)
(* Model of scripts/rss_feed_validator.py: the feed validation engine      *)
(* (RSSFeedValidator) of the comic library plugin.                         *)
(*                                                                         *)
(* Representation.                                                         *)
(*   - A Python str is a sequence of one-character strings.  Two code     *)
(*     points outside ASCII are written by name: "u2014" (em dash) and     *)
(*     "u201C" (left double quotation mark).                               *)
(*   - Optional[str] is a sequence of length 0 (None) or 1 (the string).   *)
(*   - An XML element is a record [ns, tag, text, attrs, kids]; ns and tag *)
(*     are the two halves of ElementTree's "{ns}tag".                      *)
(*   - The text of description / content:encoded / summary / content is   *)
(*     an HTML fragment, kept as the sequence of tokens html.parser and    *)
(*     BeautifulSoup see (start tags with attributes, text, end tags);     *)
(*     Render gives the raw string that substring tests read.              *)
(***************************************************************************)
EXTENDS Integers, Sequences, FiniteSets, TLC

\* ---------------------------------------------------------------- strings

\* a Python string literal, character by character
Str(lit) == [i \in 1..Len(lit) |-> SubSeq(lit, i, i)]

None == <<>>
Some(x) == <<x>>
IsNone(o) == Len(o) = 0
\* Python truthiness of an Optional[str]: neither None nor ''
Truthy(o) == Len(o) = 1 /\ Len(o[1]) > 0

UpperChars ==
  <<"A","B","C","D","E","F","G","H","I","J","K","L","M",
    "N","O","P","Q","R","S","T","U","V","W","X","Y","Z">>
LowerChars ==
  <<"a","b","c","d","e","f","g","h","i","j","k","l","m",
    "n","o","p","q","r","s","t","u","v","w","x","y","z">>
DigitSet == {"0","1","2","3","4","5","6","7","8","9"}
SpaceSet == {" ", "\t", "\n", "\r"}
UpperSet == {UpperChars[i] : i \in 1..26}
LowerSet == {LowerChars[i] : i \in 1..26}
WordSet == UpperSet \cup LowerSet \cup DigitSet \cup {"_"}

\* str.lower()
LowerChar(c) ==
  IF c \in UpperSet
  THEN LowerChars[CHOOSE i \in 1..26 : UpperChars[i] = c]
  ELSE c
Lower(s) == [i \in 1..Len(s) |-> LowerChar(s[i])]

\* str.strip()
Strip(s) ==
  LET keep == {i \in 1..Len(s) : s[i] \notin SpaceSet}
  IN IF keep = {} THEN <<>>
     ELSE LET lo == CHOOSE i \in keep : \A j \in keep : i <= j
              hi == CHOOSE i \in keep : \A j \in keep : j <= i
          IN SubSeq(s, lo, hi)

\* sub in s
Contains(s, sub) ==
  \E i \in 0..(Len(s) - Len(sub)) : SubSeq(s, i + 1, i + Len(sub)) = sub

\* s.split('/')[-1]
LastSegment(s) ==
  LET slashes == {i \in 1..Len(s) : s[i] = "/"}
  IN IF slashes = {} THEN s
     ELSE LET last == CHOOSE i \in slashes : \A j \in slashes : j <= i
          IN SubSeq(s, last + 1, Len(s))

\* any(char.isdigit() for char in s)
AnyDigit(s) == \E i \in 1..Len(s) : s[i] \in DigitSet

\* ---------------------------------------------------------------- regex
\* A pattern is a tree: Ch(set), NotCh(set), Cat(<<..>>), Alt(<<..>>),
\* Rep(r, lo, hi), Bol (^), Eol ($).  Ends(r, s, i) is the set of positions
\* at which a match of r that starts at position i of s can end.

Unbounded == 0 - 1
Ch(cs) == [k |-> "ch", cs |-> cs]
NotCh(cs) == [k |-> "not", cs |-> cs]
Cat(rs) == [k |-> "cat", rs |-> rs]
Alt(rs) == [k |-> "alt", rs |-> rs]
Rep(r, lo, hi) == [k |-> "rep", r |-> r, lo |-> lo, hi |-> hi]
Bol == [k |-> "bol"]
Eol == [k |-> "eol"]
Lit(s) == Cat([i \in 1..Len(s) |-> Ch({s[i]})])
Opt(r) == Rep(r, 0, 1)
Star(r) == Rep(r, 0, Unbounded)
Plus(r) == Rep(r, 1, Unbounded)

RECURSIVE Ends(_, _, _)
RECURSIVE CatEnds(_, _, _, _)
RECURSIVE RepEnds(_, _, _, _)
RECURSIVE RunEnds(_, _, _)
Ends(r, s, i) ==
  CASE r.k = "ch" -> IF i <= Len(s) /\ s[i] \in r.cs THEN {i + 1} ELSE {}
    [] r.k = "not" -> IF i <= Len(s) /\ s[i] \notin r.cs THEN {i + 1} ELSE {}
    [] r.k = "bol" -> IF i = 1 THEN {i} ELSE {}
    [] r.k = "eol" -> IF i = Len(s) + 1 THEN {i} ELSE {}
    [] r.k = "cat" -> CatEnds(r.rs, 1, s, {i})
    [] r.k = "alt" -> UNION {Ends(r.rs[n], s, i) : n \in 1..Len(r.rs)}
    [] r.k = "rep" -> IF r.r.k \in {"ch", "not"} THEN RunEnds(r, s, i)
                      ELSE RepEnds(r, s, {i}, 0)
CatEnds(rs, n, s, from) ==
  IF n > Len(rs) \/ from = {} THEN from
  ELSE CatEnds(rs, n + 1, s, UNION {Ends(rs[n], s, j) : j \in from})
RepEnds(r, s, from, n) ==
  LET here == IF n >= r.lo THEN from ELSE {}
  IN IF n = r.hi \/ from = {} THEN here
     ELSE here \cup RepEnds(r, s, UNION {Ends(r.r, s, j) : j \in from}, n + 1)
\* a repeated character class, without recursion: the run of matching
\* characters that starts at i allows lo..hi of them
RunEnds(r, s, i) ==
  LET Hit(j) == IF r.r.k = "ch" THEN s[j] \in r.r.cs ELSE s[j] \notin r.r.cs
      stop == {j \in i..Len(s) : ~Hit(j)}
      run == (IF stop = {} THEN Len(s) + 1
              ELSE CHOOSE j \in stop : \A m \in stop : j <= m) - i
  IN {i + c : c \in {c \in r.lo..run : r.hi = Unbounded \/ c <= r.hi}}

\* re.match(r, s), re.search(r, s), re.fullmatch(r, s) as booleans
ReMatch(r, s) == Ends(r, s, 1) # {}
ReSearch(r, s) == \E i \in 1..(Len(s) + 1) : Ends(r, s, i) # {}
ReFullMatch(r, s) == (Len(s) + 1) \in Ends(r, s, 1)

\* ---------------------------------------------------------------- HTML
\* Tokens of an HTML fragment.  attrs is the list of (name, value) pairs
\* that html.parser hands to handle_starttag.
StartTag(tag, attrs) == [k |-> "start", tag |-> tag, attrs |-> attrs]
EndTag(tag) == [k |-> "end", tag |-> tag]
Text(s) == [k |-> "text", s |-> s]

\* dict(attrs).get(name): the last pair wins, None when absent
AttrGet(attrs, name) ==
  LET hits == {i \in 1..Len(attrs) : attrs[i][1] = name}
  IN IF hits = {} THEN None
     ELSE Some(attrs[CHOOSE i \in hits : \A j \in hits : j <= i][2])

RECURSIVE Join(_, _)
Join(parts, n) == IF n > Len(parts) THEN <<>> ELSE parts[n] \o Join(parts, n + 1)

\* The raw string of a fragment (what element.text holds).
RenderAttrs(attrs) ==
  Join([i \in 1..Len(attrs) |->
          Str(" ") \o Str(attrs[i][1]) \o Str("=\"") \o attrs[i][2] \o Str("\"")], 1)
RenderToken(t) ==
  CASE t.k = "text" -> t.s
    [] t.k = "start" -> Str("<") \o Str(t.tag) \o RenderAttrs(t.attrs) \o Str(">")
    [] t.k = "end" -> Str("</") \o Str(t.tag) \o Str(">")
Render(html) == Join([i \in 1..Len(html) |-> RenderToken(html[i])], 1)

\* class ImageExtractor: the fields after __init__, handle_starttag, feed()
NewImageExtractor == [image_url |-> None, image_title |-> None, image_alt |-> None]
HandleStarttag(self, tag, attrs) ==
  IF tag = "img" /\ ~Truthy(self.image_url)
  THEN [image_url |-> AttrGet(attrs, "src"),
        image_title |-> AttrGet(attrs, "title"),
        image_alt |-> AttrGet(attrs, "alt")]
  ELSE self
RECURSIVE FeedFrom(_, _, _)
FeedFrom(self, html, i) ==
  IF i > Len(html) THEN self
  ELSE FeedFrom(IF html[i].k = "start"
                THEN HandleStarttag(self, html[i].tag, html[i].attrs)
                ELSE self, html, i + 1)
ImageExtractor(html) == FeedFrom(NewImageExtractor, html, 1)

\* BeautifulSoup(html, 'html.parser'): soup.find('img'), img.find_next('p'),
\* and for that <p>: get_text(), get('style', ''), find(['i', 'em']).
\* 0 stands for "not found".
FirstIndex(S) == IF S = {} THEN 0 ELSE CHOOSE i \in S : \A j \in S : i <= j
SoupFindImg(html) ==
  FirstIndex({i \in 1..Len(html) : html[i].k = "start" /\ html[i].tag = "img"})
FindNextP(html, img) ==
  IF img = 0 THEN 0
  ELSE FirstIndex({i \in (img + 1)..Len(html) : html[i].k = "start" /\ html[i].tag = "p"})
\* the last token of the <p> opened at p: its matching </p>, or the end
PEnd(html, p) ==
  LET Opens(j) == Cardinality({i \in p..j : html[i].k = "start" /\ html[i].tag = "p"})
      Closes(j) == Cardinality({i \in p..j : html[i].k = "end" /\ html[i].tag = "p"})
      e == FirstIndex({j \in p..Len(html) : Opens(j) = Closes(j)})
  IN IF e = 0 THEN Len(html) ELSE e
GetText(html, p) ==
  Join([i \in 1..(PEnd(html, p) - p + 1) |->
          IF html[p + i - 1].k = "text" THEN html[p + i - 1].s ELSE <<>>], 1)
HasEmphasisChild(html, p) ==
  \E i \in (p + 1)..PEnd(html, p) : html[i].k = "start" /\ html[i].tag \in {"i", "em"}
StyleOf(html, p) ==
  LET st == AttrGet(html[p].attrs, "style") IN IF IsNone(st) THEN <<>> ELSE st[1]

\* ---------------------------------------------------------------- captions
\* _is_generic_caption: generic_patterns, tried with re.match on the
\* lowered, stripped caption
GenericPatterns ==
  LET D == Ch(DigitSet)
      Sp == Ch(SpaceSet)
      W == Ch(WordSet)
      Sep == Ch({"/", "\\", "-"})
      Ymd == Cat(<<Rep(D, 4, 4), Sep, Rep(D, 2, 2), Sep, Rep(D, 2, 2)>>)
      Mdy == Cat(<<Plus(W), Plus(Sp), Rep(D, 1, 2), Lit(Str(",")), Star(Sp), Rep(D, 4, 4)>>)
      ComicFor == Cat(<<Bol, Lit(Str("comic")), Star(Sp),
                        Opt(Alt(<<Lit(Str("strip")), Lit(Str("panel"))>>)), Star(Sp),
                        Opt(Alt(<<Lit(Str("for")), Lit(Str("from"))>>)), Star(Sp)>>)
  IN << Cat(<<ComicFor, Ymd, Eol>>),
        Cat(<<ComicFor, Mdy, Eol>>),
        Cat(<<Bol, Lit(Str("comic")), Star(Sp), Alt(<<Lit(Str("of")), Lit(Str("for"))>>),
              Plus(Sp), Lit(Str("the")), Plus(Sp), Lit(Str("day")), Eol>>),
        Cat(<<Bol, Lit(Str("daily")), Plus(Sp), Lit(Str("comic")), Eol>>),
        Cat(<<Bol, Lit(Str("today")), Star(NotCh(WordSet)), Opt(Lit(Str("s"))),
              Plus(Sp), Lit(Str("comic")), Eol>>),
        Cat(<<Bol, Lit(Str("strip")), Plus(Sp), Lit(Str("for")), Plus(Sp), Ymd, Eol>>),
        Cat(<<Bol, Lit(Str("for")), Plus(Sp), Ymd, Eol>>) >>

\* _is_generic_caption: generic_phrases, tried with "in"
GenericPhrases ==
  << Str("comic strip for"), Str("comic for"), Str("daily comic"), Str("today's comic"),
     Str("this week's comic"), Str("strip for"), Str("panel for") >>

\* _is_generic_caption: date_patterns
DatePatterns ==
  LET D == Ch(DigitSet)
      Sp == Ch(SpaceSet)
      Sep == Ch({"/", "\\", "-"})
  IN << Cat(<<Bol, Rep(D, 4, 4), Sep, Rep(D, 2, 2), Sep, Rep(D, 2, 2), Eol>>),
        Cat(<<Bol, Plus(Ch(WordSet)), Plus(Sp), Rep(D, 1, 2), Lit(Str(",")), Star(Sp),
              Rep(D, 4, 4), Eol>>) >>

\* any(re.match(pattern, s) ...) and any(phrase in s ...)
MatchesAny(patterns, s) == \E n \in 1..Len(patterns) : ReMatch(patterns[n], s)
ContainsAny(phrases, s) == \E n \in 1..Len(phrases) : Contains(s, phrases[n])
IsGenericLowered(caption_lower) ==
  \/ MatchesAny(GenericPatterns, caption_lower)
  \/ ContainsAny(GenericPhrases, caption_lower)
  \/ MatchesAny(DatePatterns, caption_lower)
IsGenericCaption(caption) ==
  IF Len(caption) = 0 THEN TRUE ELSE IsGenericLowered(Strip(Lower(caption)))

\* r"panel\s*\d+|^panel|narration|sfx|:" and, for alt, the same with —
TranscriptAlternatives ==
  << Cat(<<Lit(Str("panel")), Star(Ch(SpaceSet)), Plus(Ch(DigitSet))>>),
     Cat(<<Bol, Lit(Str("panel"))>>),
     Lit(Str("narration")),
     Lit(Str("sfx")) >>
ParagraphTranscript == Alt(TranscriptAlternatives \o <<Lit(Str(":"))>>)
AltTranscript == Alt(TranscriptAlternatives \o <<Ch({"u2014"}), Lit(Str(":"))>>)
\* re.search(pattern, text, re.IGNORECASE): the patterns hold no capitals
SearchIgnoreCase(r, text) == ReSearch(r, Lower(text))

\* _extract_caption, the description_html block: <<"return", caption>> when
\* the block returns, <<"fall", None>> when control goes on to the attributes.
\* The block is modelled with bs4 importable; its bare "except" turns any
\* exception inside it into the fall to the attributes.
\* ParagraphJudge is the block from "if 0 < len(p_text) <= 200" on.
ParagraphJudge(html, next_p, p_text) ==
  IF ~(0 < Len(p_text) /\ Len(p_text) <= 200) THEN <<"fall", None>>
  ELSE IF IsGenericCaption(p_text) THEN <<"return", None>>
  ELSE IF /\ \/ Contains(StyleOf(html, next_p), Str("italic"))
             \/ HasEmphasisChild(html, next_p)
             \/ Contains(p_text, Str("\""))
             \/ Contains(p_text, <<"u201C">>)
          /\ ~SearchIgnoreCase(ParagraphTranscript, p_text)
       THEN <<"return", Some(p_text)>>
  ELSE <<"fall", None>>
ParagraphAt(html, next_p) ==
  IF next_p = 0 THEN <<"fall", None>>
  ELSE ParagraphJudge(html, next_p, Strip(GetText(html, next_p)))
ParagraphCaption(description_html) ==
  IF ~Truthy(description_html) THEN <<"fall", None>>
  ELSE ParagraphAt(description_html[1],
                   FindNextP(description_html[1], SoupFindImg(description_html[1])))

\* "1. <img title>" without the genericness filter
TitleUnfiltered(parser) ==
  IF ~Truthy(parser.image_title) THEN None
  ELSE IF 0 < Len(Strip(parser.image_title[1])) /\ Len(Strip(parser.image_title[1])) <= 200
  THEN Some(Strip(parser.image_title[1])) ELSE None

\* _extract_caption, "1. <img title>": the caption, or None to go on to alt
TitleCaption(parser) ==
  IF ~Truthy(parser.image_title) THEN None
  ELSE LET text == Strip(parser.image_title[1])
       IN IF 0 < Len(text) /\ Len(text) <= 200 /\ ~IsGenericCaption(text)
          THEN Some(text) ELSE None

\* _extract_caption, "2. Short alt"
AltGenericWords ==
  {Str("comic"), Str("cartoon"), Str("image"), Str("picture"), Str("illustration")}
\* the same without the comparison with the item title and the feed name
AltCaptionEchoing(parser, item_title, feed_name) ==
  IF ~Truthy(parser.image_alt) THEN None
  ELSE LET text == Strip(parser.image_alt[1])
           normalized == Lower(text)
       IN IF SearchIgnoreCase(AltTranscript, text) THEN None
          ELSE IF ReFullMatch(Cat(<<Ch(UpperSet), Plus(Ch(LowerSet))>>), text) THEN None
          ELSE IF \E phrase \in AltGenericWords : Contains(normalized, phrase) THEN None
          ELSE IF IsGenericCaption(text) THEN None
          ELSE IF 0 < Len(text) /\ Len(text) <= 140 THEN Some(text)
          ELSE None
AltCaption(parser, item_title, feed_name) ==
  IF ~Truthy(parser.image_alt) THEN None
  ELSE LET text == Strip(parser.image_alt[1])
           normalized == Lower(text)
           bad == {Lower(t[1]) : t \in {u \in {item_title, feed_name} : Truthy(u)}}
       IN IF SearchIgnoreCase(AltTranscript, text) THEN None
          ELSE IF normalized \in bad THEN None
          ELSE IF ReFullMatch(Cat(<<Ch(UpperSet), Plus(Ch(LowerSet))>>), text) THEN None
          ELSE IF \E phrase \in AltGenericWords : Contains(normalized, phrase) THEN None
          ELSE IF IsGenericCaption(text) THEN None
          ELSE IF 0 < Len(text) /\ Len(text) <= 140 THEN Some(text)
          ELSE None

\* _extract_caption(parser, item_title, feed_name, description_html);
\* parser is Optional: None, or Some(the ImageExtractor's fields)
FirstCaption(para, title, alt) ==
  IF para[1] = "return" THEN para[2]
  ELSE IF ~IsNone(title) THEN title
  ELSE alt
ExtractCaption(parser, item_title, feed_name, description_html) ==
  IF IsNone(parser) THEN None
  ELSE FirstCaption(ParagraphCaption(description_html), TitleCaption(parser[1]),
                    AltCaption(parser[1], item_title, feed_name))

\* ---------------------------------------------------------------- XML
\* An element as ElementTree gives it.  text is Optional; attrs is the
\* attribute list; kids are the child elements in document order.
Element(ns, tag, text, attrs, kids) ==
  [ns |-> ns, tag |-> tag, text |-> text, attrs |-> attrs, kids |-> kids]
ContentNs == "http://purl.org/rss/1.0/modules/content/"
AtomNs == "http://www.w3.org/2005/Atom"

\* element.findall(path) / element.find(path) for a one-step path that
\* resolves to namespace ns and local name tag: the matching children
FindAll(elem, ns, tag) ==
  SelectSeq(elem.kids, LAMBDA e : e.ns = ns /\ e.tag = tag)
Find(elem, ns, tag) ==
  LET all == FindAll(elem, ns, tag) IN IF Len(all) = 0 THEN None ELSE Some(all[1])
\* root.tag, in ElementTree's "{namespace}tag" form
TagString(elem) ==
  IF elem.ns = "" THEN elem.tag ELSE "{" \o elem.ns \o "}" \o elem.tag

\* ---------------------------------------------------------------- URLs
\* urllib.parse.urlparse(url): scheme and netloc; error is its ValueError
\* ("Invalid IPv6 URL") for a netloc with an unmatched bracket.
\* LStrip is the url.lstrip() it starts with, SchemeLen the length of the
\* scheme before the first ":" (0 when there is none), Netloc the part
\* between "//" and the next "/", "?" or "#".
LStrip(s) ==
  LET lead == FirstIndex({i \in 1..Len(s) : s[i] \notin SpaceSet})
  IN IF lead = 0 THEN <<>> ELSE SubSeq(s, lead, Len(s))
SchemeLen(url) ==
  LET colon == FirstIndex({i \in 1..Len(url) : url[i] = ":"})
  IN IF /\ colon > 1
        /\ url[1] \in LowerSet \cup UpperSet
        /\ \A i \in 1..(colon - 1) :
             url[i] \in LowerSet \cup UpperSet \cup DigitSet \cup {"+", "-", "."}
     THEN colon - 1 ELSE 0
Netloc(rest) ==
  IF ~(Len(rest) >= 2 /\ rest[1] = "/" /\ rest[2] = "/") THEN <<>>
  ELSE LET delim == FirstIndex({i \in 3..Len(rest) : rest[i] \in {"/", "?", "#"}})
       IN SubSeq(rest, 3, IF delim = 0 THEN Len(rest) ELSE delim - 1)
ParseResult(scheme, netloc) ==
  [scheme |-> scheme, netloc |-> netloc,
   error |-> (\E i \in 1..Len(netloc) : netloc[i] = "[")
             # (\E i \in 1..Len(netloc) : netloc[i] = "]")]
UrlSplit(url, n) ==
  IF n = 0 THEN ParseResult(<<>>, Netloc(url))
  ELSE ParseResult(Lower(SubSeq(url, 1, n)), Netloc(SubSeq(url, n + 2, Len(url))))
UrlParse(url) == UrlSplit(LStrip(url), SchemeLen(LStrip(url)))

\* _is_valid_image_url without the urlparse check
AcceptsAnyUrl(url) == Len(url) > 0

\* _is_valid_image_url, for a url whose urlparse does not raise
HasSchemeAndNetloc(parsed) ==
  IF Len(parsed.scheme) = 0 \/ Len(parsed.netloc) = 0 THEN FALSE ELSE TRUE
IsValidImageUrl(url) ==
  IF Len(url) = 0 THEN FALSE ELSE HasSchemeAndNetloc(UrlParse(url))

\* "u and self._is_valid_image_url(u)" for an Optional u:
\* "yes", "no", or "raise" when urlparse raises
Candidate(u) ==
  IF ~Truthy(u) THEN "no"
  ELSE IF UrlParse(u[1]).error THEN "raise"
  ELSE IF IsValidImageUrl(u[1]) THEN "yes" ELSE "no"

\* ---------------------------------------------------------------- promo
\* the image-URL markers of _is_generic_promo_rss / _is_generic_promo_atom
HasPromoMarker(image_url) ==
  LET url_lower == Lower(image_url)
  IN \/ Contains(url_lower, Str("generic_fb"))
     \/ Contains(url_lower, Str("social_fb_generic"))
     \/ Contains(url_lower, Str("gocomicscmsassets"))
HasPromoPhrases(text_lower) ==
  /\ Contains(text_lower, Str("explore the archive"))
  /\ Contains(text_lower, Str("read extra content"))

\* link_has_date for an Optional link string
LinkHasDate(link) == Truthy(link) /\ AnyDigit(LastSegment(link[1]))

\* _is_generic_promo_rss without its phrase test
PromoByMarkerOnly(item, title) ==
  LET link == Find(item, "", "link")
      description == Find(item, "", "description")
  IN /\ ~(~IsNone(link) /\ LinkHasDate(link[1].text))
     /\ ~IsNone(description) /\ Truthy(description[1].text)
     /\ Truthy(ImageExtractor(description[1].text[1]).image_url)
     /\ HasPromoMarker(ImageExtractor(description[1].text[1]).image_url[1])

\* _is_generic_promo_rss, were the marker looked for in the image that
\* will be accepted (a valid enclosure url before the description's img)
PromoByAcceptedImage(item, title) ==
  LET link == Find(item, "", "link")
      enclosure == Find(item, "", "enclosure")
      description == Find(item, "", "description")
      has_text == ~IsNone(description) /\ Truthy(description[1].text)
      parser == ImageExtractor(description[1].text[1])
  IN IF ~IsNone(link) /\ LinkHasDate(link[1].text) THEN FALSE
     ELSE IF ~IsNone(enclosure) /\ Candidate(AttrGet(enclosure[1].attrs, "url")) = "yes"
          THEN HasPromoMarker(AttrGet(enclosure[1].attrs, "url")[1])
     ELSE IF has_text /\ Truthy(parser.image_url) /\ HasPromoMarker(parser.image_url[1])
          THEN TRUE
     ELSE HasPromoPhrases(IF has_text THEN Lower(Render(description[1].text[1])) ELSE <<>>)
IsGenericPromoRss(item, title) ==
  LET link == Find(item, "", "link")
      link_has_date == ~IsNone(link) /\ LinkHasDate(link[1].text)
      description == Find(item, "", "description")
      has_text == ~IsNone(description) /\ Truthy(description[1].text)
      parser == ImageExtractor(description[1].text[1])
      desc_lower == IF has_text THEN Lower(Render(description[1].text[1])) ELSE <<>>
  IN IF link_has_date THEN FALSE
     ELSE IF has_text /\ Truthy(parser.image_url) /\ HasPromoMarker(parser.image_url[1])
          THEN TRUE
     ELSE HasPromoPhrases(desc_lower)

\* find(tag), then find('atom:' + tag, ns) when that found nothing
FindAtom(elem, tag) ==
  LET plain == Find(elem, "", tag) IN IF IsNone(plain) THEN Find(elem, AtomNs, tag) ELSE plain

\* _is_generic_promo_atom without its link_has_date test
PromoAtomIgnoringLink(entry, title, link_elem) ==
  LET summary == FindAtom(entry, "summary")
  IN /\ ~IsNone(summary) /\ Truthy(summary[1].text)
     /\ \/ /\ Truthy(ImageExtractor(summary[1].text[1]).image_url)
           /\ HasPromoMarker(ImageExtractor(summary[1].text[1]).image_url[1])
        \/ HasPromoPhrases(Lower(Render(summary[1].text[1])))

IsGenericPromoAtom(entry, title, link_elem) ==
  LET link_has_date == ~IsNone(link_elem) /\ LinkHasDate(AttrGet(link_elem[1].attrs, "href"))
      summary == FindAtom(entry, "summary")
      has_text == ~IsNone(summary) /\ Truthy(summary[1].text)
      parser == ImageExtractor(summary[1].text[1])
  IN IF link_has_date THEN FALSE
     ELSE IF ~has_text THEN FALSE
     ELSE IF Truthy(parser.image_url) /\ HasPromoMarker(parser.image_url[1]) THEN TRUE
     ELSE HasPromoPhrases(Lower(Render(summary[1].text[1])))

\* ---------------------------------------------------------------- results
\* dataclass ValidationResult; every Optional field defaults to None
InvalidResult(url, name, error_message, feed_type) ==
  [url |-> url, is_valid |-> FALSE, name |-> name,
   error_message |-> Some(error_message), comic_title |-> None, image_url |-> None,
   image_source |-> None, feed_type |-> feed_type, link |-> None, caption |-> None]
ValidResult(url, name, comic_title, image_url, image_source, feed_type, link, caption) ==
  [url |-> url, is_valid |-> TRUE, name |-> name,
   error_message |-> None, comic_title |-> comic_title, image_url |-> Some(image_url),
   image_source |-> Some(image_source), feed_type |-> Some(feed_type), link |-> link,
   caption |-> caption]

\* How a call of _validate_rss_feed / _validate_atom_feed / validate_feed
\* goes on: it returns a result, an exception leaves it (exc is its str()),
\* or it stands at a call of _test_image_access(image_url, url).  calls lists the helper
\* stages entered so far ("promo", "probe", "caption").
Return(res, calls) == [t |-> "return", res |-> res, calls |-> calls]
Raise(exc, calls) == [t |-> "raise", exc |-> exc, calls |-> calls]
AskProbe(image_url, calls) == [t |-> "probe", image_url |-> image_url, calls |-> calls]

HotlinkMessage == "Image has hotlink protection (403 Forbidden)"
PromoMessage == "Feed contains only generic promotional content"

\* the hotlink return, were it to report the image it refused
AfterProbeKeepingImage(probe, image_url, url, name, feed_type, calls, accepted) ==
  CASE probe = "unasked" -> AskProbe(image_url, calls \o <<"probe">>)
    [] probe = "blocked" ->
         Return([InvalidResult(url, name, HotlinkMessage, Some(feed_type))
                   EXCEPT !.image_url = Some(image_url)],
                calls \o <<"probe">>)
    [] probe = "accessible" -> accepted

\* "if not self._test_image_access(image_url, url): return <hotlink>" and
\* what follows it.  probe is "unasked" until the probe has answered, then
\* "accessible" or "blocked"; accepted is the continuation after the probe.
AfterProbe(probe, image_url, url, name, feed_type, calls, accepted) ==
  CASE probe = "unasked" -> AskProbe(image_url, calls \o <<"probe">>)
    [] probe = "blocked" ->
         Return(InvalidResult(url, name, HotlinkMessage, Some(feed_type)),
                calls \o <<"probe">>)
    [] probe = "accessible" -> accepted

\* element.text of an Optional element, None when the element is None
TextOf(elem) == IF IsNone(elem) THEN None ELSE elem[1].text

\* "parser = ImageExtractor(); parser.feed(text)" under "if text:", as an
\* Optional parser, and the image_url it then holds
ParserOf(text) == IF Truthy(text) THEN Some(ImageExtractor(text[1])) ELSE None
ImageOf(parser) == IF IsNone(parser) THEN None ELSE parser[1].image_url

\* "if image_url and self._is_valid_image_url(image_url): <accepted>",
\* else on to <otherwise>; ok is Candidate(image_url)
IfValidImage(ok, accepted, otherwise) ==
  IF ok = "raise" THEN Raise("Invalid IPv6 URL", <<"promo">>)  \* urlparse's ValueError
  ELSE IF ok = "yes" THEN accepted
  ELSE otherwise

\* _validate_rss_feed, the three places an image is looked for.  item is
\* the record of what the lines before them resolved: title, link,
\* has_description ("description is not None"), description_text,
\* content_text, enclosure_url.
RssFromEnclosure(item, url, name, probe) ==
  AfterProbe(probe, item.enclosure_url[1], url, name, "rss", <<"promo">>,
    IF ~item.has_description
    THEN Raise("'NoneType' object has no attribute 'text'",  \* description.text
               <<"promo", "probe">>)
    ELSE Return(ValidResult(url, name, item.title, item.enclosure_url[1], "enclosure",
                            "rss", item.link,
                            ExtractCaption(ParserOf(IF Truthy(item.content_text)
                                                    THEN item.content_text
                                                    ELSE item.description_text),
                                           item.title, name, item.description_text)),
                <<"promo", "probe", "caption">>))
\* the description return, were the caption asked for without the HTML
\* (as the content:encoded return does)
RssFromDescriptionWithoutHtml(item, parser, url, name, probe) ==
  AfterProbe(probe, ImageOf(parser)[1], url, name, "rss", <<"promo">>,
    Return(ValidResult(url, name, item.title, ImageOf(parser)[1], "description", "rss",
                       item.link, ExtractCaption(parser, item.title, name, None)),
           <<"promo", "probe", "caption">>))
RssFromDescription(item, parser, url, name, probe) ==
  AfterProbe(probe, ImageOf(parser)[1], url, name, "rss", <<"promo">>,
    Return(ValidResult(url, name, item.title, ImageOf(parser)[1], "description", "rss",
                       item.link,
                       ExtractCaption(parser, item.title, name, item.description_text)),
           <<"promo", "probe", "caption">>))
\* the content:encoded return, were it labelled like the description one
RssFromContentAsDescription(item, parser, url, name, probe) ==
  AfterProbe(probe, ImageOf(parser)[1], url, name, "rss", <<"promo">>,
    Return(ValidResult(url, name, item.title, ImageOf(parser)[1], "description", "rss",
                       item.link, ExtractCaption(parser, item.title, name, None)),
           <<"promo", "probe", "caption">>))
RssFromContent(item, parser, url, name, probe) ==
  AfterProbe(probe, ImageOf(parser)[1], url, name, "rss", <<"promo">>,
    Return(ValidResult(url, name, item.title, ImageOf(parser)[1], "content:encoded", "rss",
                       item.link, ExtractCaption(parser, item.title, name, None)),
           <<"promo", "probe", "caption">>))
RssTryContent(item, parser, url, name, probe) ==
  IfValidImage(Candidate(ImageOf(parser)),
               RssFromContent(item, parser, url, name, probe),
               Return(InvalidResult(url, name,
                        "No valid image found in enclosure, description, or content:encoded",
                        Some("rss")), <<"promo">>))
RssTryDescription(item, parser, url, name, probe) ==
  IfValidImage(Candidate(ImageOf(parser)),
               RssFromDescription(item, parser, url, name, probe),
               RssTryContent(item, ParserOf(item.content_text), url, name, probe))
\* _validate_rss_feed without its enclosure block
RssImageFromDescription(item, url, name, probe) ==
  RssTryDescription(item, ParserOf(item.description_text), url, name, probe)

\* _validate_rss_feed from "Try enclosure first" on
RssImage(item, url, name, probe) ==
  IfValidImage(Candidate(item.enclosure_url),
               RssFromEnclosure(item, url, name, probe),
               RssTryDescription(item, ParserOf(item.description_text), url, name, probe))

\* the fields _validate_rss_feed reads off first_item
RssFields(first_item, description, encoded_ns, enclosure) ==
  [title |-> IF IsNone(Find(first_item, "", "title")) THEN Some(Str("Untitled"))
             ELSE Find(first_item, "", "title")[1].text,
   link |-> TextOf(Find(first_item, "", "link")),
   has_description |-> ~IsNone(description),
   description_text |-> TextOf(description),
   content_text |-> TextOf(IF IsNone(encoded_ns) THEN Find(first_item, "", "content:encoded")
                           ELSE encoded_ns),
   enclosure_url |-> IF IsNone(enclosure) THEN None ELSE AttrGet(enclosure[1].attrs, "url")]

\* the same, were the promo check made once the image has been located
\* and probed
RssCheckedLate(first_item, item, url, name, probe) ==
  IF RssImage(item, url, name, probe).t = "return"
     /\ IsGenericPromoRss(first_item, item.title)
  THEN Return(InvalidResult(url, name, PromoMessage, Some("rss")), <<"promo">>)
  ELSE RssImage(item, url, name, probe)

\* _validate_rss_feed from first_item = items[0] on
RssChecked(first_item, item, url, name, probe) ==
  IF IsGenericPromoRss(first_item, item.title)
  THEN Return(InvalidResult(url, name, PromoMessage, Some("rss")), <<"promo">>)
  ELSE RssImage(item, url, name, probe)
RssItem(first_item, url, name, probe) ==
  RssChecked(first_item,
             RssFields(first_item, Find(first_item, "", "description"),
                       Find(first_item, ContentNs, "encoded"),
                       Find(first_item, "", "enclosure")),
             url, name, probe)

\* _validate_rss_feed without "if not items": items[0] raises IndexError
RssItemsUnchecked(channel, url, name, probe) ==
  IF IsNone(channel)
  THEN Return(InvalidResult(url, name, "No channel element found in RSS", Some("rss")), <<>>)
  ELSE IF Len(FindAll(channel[1], "", "item")) = 0
  THEN Raise("list index out of range", <<>>)
  ELSE RssItem(FindAll(channel[1], "", "item")[1], url, name, probe)

\* the same, were the newest image looked for in the last item
RssItemsLast(channel, url, name, probe) ==
  IF IsNone(channel)
  THEN Return(InvalidResult(url, name, "No channel element found in RSS", Some("rss")), <<>>)
  ELSE IF Len(FindAll(channel[1], "", "item")) = 0
  THEN Return(InvalidResult(url, name, "No items found in RSS feed", Some("rss")), <<>>)
  ELSE RssItem(FindAll(channel[1], "", "item")[Len(FindAll(channel[1], "", "item"))],
               url, name, probe)

\* _validate_rss_feed from "channel = root.find('channel')" to first_item
RssItems(channel, url, name, probe) ==
  IF IsNone(channel)
  THEN Return(InvalidResult(url, name, "No channel element found in RSS", Some("rss")), <<>>)
  ELSE IF Len(FindAll(channel[1], "", "item")) = 0
  THEN Return(InvalidResult(url, name, "No items found in RSS feed", Some("rss")), <<>>)
  ELSE RssItem(FindAll(channel[1], "", "item")[1], url, name, probe)
ValidateRssFeed(root, url, name, probe) ==
  RssItems(Find(root, "", "channel"), url, name, probe)

\* _validate_atom_feed from "if description_text:" on; entry is the record
\* of title, link and description_text (summary's text, else content's)
AtomFromSummary(entry, parser, url, name, probe) ==
  AfterProbe(probe, ImageOf(parser)[1], url, name, "atom", <<"promo">>,
    Return(ValidResult(url, name, entry.title, ImageOf(parser)[1], "summary", "atom",
                       entry.link, ExtractCaption(parser, entry.title, name, None)),
           <<"promo", "probe", "caption">>))
AtomTrySummary(entry, parser, url, name, probe) ==
  IfValidImage(Candidate(ImageOf(parser)),
               AtomFromSummary(entry, parser, url, name, probe),
               Return(InvalidResult(url, name, "No valid image found in summary or content",
                                    Some("atom")), <<"promo">>))
AtomImage(entry, url, name, probe) ==
  AtomTrySummary(entry, ParserOf(entry.description_text), url, name, probe)

\* the fields _validate_atom_feed reads off first_entry
AtomFields(title_elem, link_elem, summary_text, content_text) ==
  [title |-> IF IsNone(title_elem) THEN Some(Str("Untitled")) ELSE title_elem[1].text,
   link |-> IF IsNone(link_elem) THEN None ELSE AttrGet(link_elem[1].attrs, "href"),
   description_text |-> IF Truthy(summary_text) THEN summary_text
                        ELSE IF Truthy(content_text) THEN content_text
                        ELSE None]

\* _validate_atom_feed from first_entry = entries[0] on
AtomChecked(first_entry, entry, link_elem, url, name, probe) ==
  IF IsGenericPromoAtom(first_entry, entry.title, link_elem)
  THEN Return(InvalidResult(url, name, PromoMessage, Some("atom")), <<"promo">>)
  ELSE AtomImage(entry, url, name, probe)
AtomEntry(first_entry, url, name, probe) ==
  AtomChecked(first_entry,
              AtomFields(FindAtom(first_entry, "title"), FindAtom(first_entry, "link"),
                         TextOf(FindAtom(first_entry, "summary")),
                         TextOf(FindAtom(first_entry, "content"))),
              FindAtom(first_entry, "link"), url, name, probe)

\* entries = root.findall('entry') or root.findall('atom:entry', ns)
AtomEntries(root) ==
  IF Len(FindAll(root, "", "entry")) = 0 THEN FindAll(root, AtomNs, "entry")
  ELSE FindAll(root, "", "entry")
AtomFirst(entries, url, name, probe) ==
  IF Len(entries) = 0
  THEN Return(InvalidResult(url, name, "No entries found in Atom feed", Some("atom")), <<>>)
  ELSE AtomEntry(entries[1], url, name, probe)
ValidateAtomFeed(root, url, name, probe) == AtomFirst(AtomEntries(root), url, name, probe)

\* validate_feed without the "except Exception" handler
Propagate(outcome, url, name) == outcome

\* validate_feed's handler "except Exception": whatever is raised inside
\* the try block becomes an invalid result
CatchAll(outcome, url, name) ==
  IF outcome.t = "raise"
  THEN Return(InvalidResult(url, name, "Unexpected error: " \o outcome.exc, None),
              outcome.calls)
  ELSE outcome

\* validate_feed(url, name) for the response the feed GET met.  response is
\* [fetch, status, xml, root, detail]: fetch "error" is a RequestException
\* from get(), status the status code of a response that arrived (it makes
\* raise_for_status() raise from 400 to 599), xml "malformed" a ParseError of
\* ET.fromstring, and detail the str() of the exception raised.
ValidateFeed(url, name, response, probe) ==
  LET root == response.root
  IN IF response.fetch = "error" \/ (response.status >= 400 /\ response.status < 600)
     THEN Return(InvalidResult(url, name, "Request failed: " \o response.detail, None), <<>>)
     ELSE IF response.xml = "malformed"
     THEN Return(InvalidResult(url, name, "XML parsing failed: " \o response.detail, None), <<>>)
     ELSE IF (root.ns = "" /\ root.tag = "rss") \/ (root.ns # "" /\ root.tag = "rss")
     THEN CatchAll(ValidateRssFeed(root, url, name, probe), url, name)
     ELSE IF (root.ns = "" /\ root.tag = "feed") \/ (root.ns # "" /\ root.tag = "feed")
     THEN CatchAll(ValidateAtomFeed(root, url, name, probe), url, name)
     ELSE Return(InvalidResult(url, name, "Unknown feed type: " \o TagString(root), None),
                 <<>>)

\* _test_image_access: the verdict after the HEAD response and after the
\* GET response.  A response is [exc, status]: exc is a RequestException.
\* the HEAD verdict, were 403 retried like any other status >= 400
AfterHeadRetrying403(response) ==
  IF response.exc THEN "accessible"
  ELSE IF response.status >= 400 THEN "get"
  ELSE "accessible"
\* the HEAD verdict, were a failed probe counted against the image
AfterHeadPessimistic(response) ==
  IF response.exc THEN "blocked"
  ELSE IF response.status = 403 THEN "blocked"
  ELSE IF response.status >= 400 THEN "get"
  ELSE "accessible"
AfterHead(response) ==
  IF response.exc THEN "accessible"
  ELSE IF response.status = 403 THEN "blocked"
  ELSE IF response.status >= 400 THEN "get"
  ELSE "accessible"
\* the GET verdict, were only 403 to count on the retry
AfterGetOnly403(response) ==
  IF response.exc THEN "accessible"
  ELSE IF response.status = 403 THEN "blocked"
  ELSE "accessible"
AfterGet(response) ==
  IF response.exc THEN "accessible"
  ELSE IF response.status = 403 THEN "blocked"
  ELSE IF response.status >= 400 THEN "blocked"
  ELSE "accessible"

\* ---------------------------------------------------------------- inputs
\* The feeds the network may serve.  Each list holds the alternatives for
\* one part of a first item; a feed document is one choice from each.
MaxFeeds == 2   \* entries of a batch mapping
MaxItems == 2   \* items (entries) of one feed document

ImgA == Str("https://cdn.example/a.png")
ImgB == Str("https://cdn.example/b.png")
ImgC == Str("https://cdn.example/c.png")
ImgRelative == Str("/img/r.png")
ImgBracket == Str("http://[cdn/x.png")
ImgPromo == Str("https://GoComicsCmsAssets.example/Generic_FB.png")
LinkDated == Str("https://example.com/strip/2024-05-01")
LinkUndated == Str("https://example.com/2024/05/01/strip")
PromoText == Str("Explore the Archive to READ extra content")
Leaf(ns, tag, text) == Element(ns, tag, text, <<>>, <<>>)
Img(attrs) == StartTag("img", attrs)
Para(s) == <<StartTag("p", <<>>), Text(s), EndTag("p")>>

\* HTML fragments of a description / summary
Fragments ==
  << <<Img(<< <<"src", ImgB>> >>)>>,
     <<Img(<< <<"src", ImgB>>, <<"title", Str("Comic strip for 2024/05/01")>> >>)>>,
     <<Img(<< <<"src", ImgB>>, <<"title", Str(" Hover text ")>>,
              <<"alt", Str("A quiet joke")>> >>)>>,
     <<Img(<< <<"src", ImgB>>, <<"title", Str("May 1, 2024")>>,
              <<"alt", Str("A quiet joke")>> >>)>>,
     <<Img(<< <<"src", ImgB>>, <<"title", [i \in 1..201 |-> "x"]>> >>)>>,
     <<Img(<< <<"src", ImgB>>, <<"title", Str("Hover text")>> >>)>>
       \o Para(Str("He muttered, \"not again.\"")),
     <<Img(<< <<"src", ImgB>>, <<"title", Str("Hover text")>> >>)>>
       \o Para(Str("Comic strip for 2024/05/01")),
     <<Text(PromoText), Img(<< <<"src", ImgB>> >>)>>,
     <<Text(PromoText)>>,
     <<Img(<< <<"src", ImgPromo>> >>)>>,
     <<Text(Str("No picture today"))>>,
     <<Img(<< <<"src", ImgRelative>>, <<"alt", Str("A quiet joke")>> >>)>>,
     <<Img(<< <<"src", Str("")>> >>), Img(<< <<"src", ImgB>>, <<"title", Str("Second")>> >>)>>,
     <<Img(<< <<"src", ImgBracket>> >>)>>,
     <<Text(PromoText), Img(<< <<"src", ImgPromo>> >>)>> >>

\* <description> of an RSS item: missing, empty, or one of the fragments
Descriptions ==
  << <<>>, <<Leaf("", "description", None)>> >>
  \o [i \in 1..Len(Fragments) |-> <<Leaf("", "description", Some(Fragments[i]))>>]
\* <content:encoded>
Contents ==
  << <<>>,
     <<Leaf(ContentNs, "encoded", Some(<<Img(<< <<"src", ImgC>>, <<"title", Str("From content")>> >>)>>))>>,
     <<Leaf(ContentNs, "encoded", Some(<<Text(Str("words only"))>>))>> >>
Enclosures ==
  << <<>>,
     <<Element("", "enclosure", None, << <<"url", ImgA>> >>, <<>>)>>,
     <<Element("", "enclosure", None, << <<"url", ImgRelative>> >>, <<>>)>>,
     <<Element("", "enclosure", None, << <<"type", Str("image/png")>> >>, <<>>)>>,
     <<Element("", "enclosure", None, << <<"url", ImgBracket>> >>, <<>>)>> >>
RssLinks ==
  << <<>>, <<Leaf("", "link", Some(LinkDated))>>, <<Leaf("", "link", Some(LinkUndated))>>,
     <<Leaf("", "link", None)>> >>
RssTitles ==
  << <<>>, <<Leaf("", "title", Some(Str("A quiet joke")))>>, <<Leaf("", "title", None)>> >>

\* an item that would validate on its own, used for the items after the first
SpareItem ==
  Element("", "item", None, <<>>,
          <<Leaf("", "link", Some(LinkDated)),
            Element("", "enclosure", None, << <<"url", ImgC>> >>, <<>>),
            Leaf("", "description", Some(<<Img(<< <<"src", ImgC>>, <<"title", Str("Spare")>> >>)>>))>>)
SpareEntry(ns) ==
  Element(ns, "entry", None, <<>>,
          <<Element(ns, "link", None, << <<"href", LinkDated>> >>, <<>>),
            Leaf(ns, "summary", Some(<<Img(<< <<"src", ImgC>>, <<"title", Str("Spare")>> >>)>>))>>)

Fetched(root) ==
  [fetch |-> "ok", status |-> 200, xml |-> "ok", root |-> root, detail |-> ""]
RssDocument(items) ==
  Fetched(Element("", "rss", None, << <<"version", Str("2.0")>> >>,
                  <<Element("", "channel", None, <<>>,
                            <<Leaf("", "title", Some(Str("Channel")))>> \o items)>>))
AtomDocument(ns, entries) ==
  Fetched(Element(ns, "feed", None, <<>>, <<Leaf(ns, "title", Some(Str("Feed")))>> \o entries))

\* documents taken one by one: feeds that never reach an item, failed
\* fetches, and single items the lists above do not build
NoRoot == Element("", "", None, <<>>, <<>>)
StructuralDocuments ==
  << [fetch |-> "ok", status |-> 503, xml |-> "none", root |-> NoRoot,
      detail |-> "503 Server Error: Service Unavailable"],
     [fetch |-> "ok", status |-> 200, xml |-> "malformed", root |-> NoRoot,
      detail |-> "syntax error: line 1, column 0"],
     Fetched(Element("", "html", None, <<>>, <<>>)),
     Fetched(Element("http://www.w3.org/1999/02/22-rdf-syntax-ns#", "RDF", None, <<>>, <<>>)),
     Fetched(Element("", "rss", None, <<>>, <<>>)),
     RssDocument(<<>>),
     AtomDocument("", <<>>),
     AtomDocument(AtomNs, <<>>),
     [fetch |-> "error", status |-> 0, xml |-> "none", root |-> NoRoot,
      detail |-> "Read timed out."],
     [RssDocument(<<Element("", "item", None, <<>>,
                            RssLinks[2] \o Enclosures[2] \o Descriptions[5])>>)
        EXCEPT !.status = 300],
     RssDocument(<<Element("", "item", None, <<>>,
                           RssLinks[3]
                           \o <<Element("", "enclosure", None, << <<"url", ImgPromo>> >>, <<>>)>>
                           \o Descriptions[3])>>) >>

\* the n-th RSS document: n is read as one digit per list
RssCount ==
  Len(RssTitles) * Len(RssLinks) * Len(Enclosures) * Len(Descriptions) * Len(Contents)
  * MaxItems
RssDocumentAt(n) ==
  LET t == n % Len(RssTitles)
      n1 == n \div Len(RssTitles)
      l == n1 % Len(RssLinks)
      n2 == n1 \div Len(RssLinks)
      e == n2 % Len(Enclosures)
      n3 == n2 \div Len(Enclosures)
      d == n3 % Len(Descriptions)
      n4 == n3 \div Len(Descriptions)
      c == n4 % Len(Contents)
      spare == n4 \div Len(Contents)
      first == Element("", "item", None, <<>>,
                       RssTitles[t + 1] \o RssLinks[l + 1] \o Enclosures[e + 1]
                       \o Descriptions[d + 1] \o Contents[c + 1])
  IN RssDocument(<<first>> \o [i \in 1..spare |-> SpareItem])

AtomLinks(ns) ==
  << <<>>, <<Element(ns, "link", None, << <<"href", LinkDated>> >>, <<>>)>>,
     <<Element(ns, "link", None, << <<"href", LinkUndated>> >>, <<>>)>>,
     <<Element(ns, "link", None, << <<"rel", Str("self")>> >>, <<>>)>> >>
AtomSummaries(ns) ==
  << <<>>, <<Leaf(ns, "summary", None)>> >>
  \o [i \in 1..Len(Fragments) |-> <<Leaf(ns, "summary", Some(Fragments[i]))>>]
AtomContents(ns) ==
  << <<>>,
     <<Leaf(ns, "content", Some(<<Img(<< <<"src", ImgC>>, <<"title", Str("From content")>> >>)>>))>> >>
AtomCount == 2 * Len(AtomLinks("")) * Len(AtomSummaries("")) * Len(AtomContents("")) * MaxItems
AtomDocumentAt(n) ==
  LET ns == IF n % 2 = 0 THEN "" ELSE AtomNs
      n1 == n \div 2
      l == n1 % Len(AtomLinks(ns))
      n2 == n1 \div Len(AtomLinks(ns))
      sm == n2 % Len(AtomSummaries(ns))
      n3 == n2 \div Len(AtomSummaries(ns))
      c == n3 % Len(AtomContents(ns))
      spare == n3 \div Len(AtomContents(ns))
      first == Element(ns, "entry", None, <<>>,
                       <<Leaf(ns, "title", Some(Str("Bizarro")))>> \o AtomLinks(ns)[l + 1]
                       \o AtomSummaries(ns)[sm + 1] \o AtomContents(ns)[c + 1])
  IN AtomDocument(ns, <<first>> \o [i \in 1..spare |-> SpareEntry(ns)])

\* Descriptions for the caption paths: an image with a usable title and
\* alt, and around it the paragraphs _extract_caption has to judge; then
\* images whose alt is the candidate, one per check the alt has to pass.
CaptionFragments ==
  LET CaptionImg == Img(<< <<"src", ImgB>>, <<"title", Str("Hover text")>>,
                           <<"alt", Str("A quiet joke")>> >>)
      AltImg(alt) == <<Img(<< <<"src", ImgB>>, <<"alt", alt>> >>)>>
  IN
  << <<CaptionImg>> \o Para(Str("He muttered, \"not again.\"")),
     <<CaptionImg, StartTag("p", <<>>), StartTag("em", <<>>), Text(Str("Later that day")),
       EndTag("em"), EndTag("p")>>,
     <<CaptionImg, StartTag("p", << <<"style", Str("font-style: italic")>> >>),
       Text(Str(" Later that day ")), EndTag("p")>>,
     <<CaptionImg>> \o Para(Str("Later that day")),
     <<CaptionImg>> \o Para(Str("Panel 1 \"Oh no\"")),
     <<CaptionImg>> \o Para(Str("Bob: \"hi\"")),
     <<CaptionImg>> \o Para(Str("\"BOOM\" (SFX)")),
     <<CaptionImg>> \o Para(Str("\"Daily comic\"")),
     <<CaptionImg>> \o Para(Str("  ")) \o Para(Str("\"Second paragraph\"")),
     <<CaptionImg>> \o Para(<<"\"">> \o [i \in 1..199 |-> "x"]),
     <<CaptionImg>> \o Para(<<"\"">> \o [i \in 1..200 |-> "x"]),
     Para(Str("\"Before the image\"")) \o <<CaptionImg>>,
     <<CaptionImg>> \o Para(<<"u201C">> \o Str("Curly quoted")),
     <<Img(<< <<"src", Str("")>> >>)>> \o Para(Str("\"Between the images\""))
       \o <<CaptionImg>>,
     <<CaptionImg, Text(Str("Words, then ")), StartTag("p", <<>>), Text(Str("He said ")),
       StartTag("i", <<>>), Text(Str("never")), EndTag("i"), EndTag("p")>>,
     AltImg(Str(" Two dogs talking ")),
     AltImg(Str("A quiet joke")),
     AltImg(Str("FEED A")),
     AltImg(Str("Bizarro")),
     AltImg(Str("bizarro")),
     AltImg(Str("A tiny cartoon")),
     AltImg(Str("Then SFX boom")),
     AltImg(Str("Wait") \o <<"u2014">> \o Str("what")),
     AltImg(Str("Bob: hi")),
     AltImg(Str("May 1, 2024")),
     AltImg(Str("  ")),
     AltImg([i \in 1..140 |-> "x"]),
     AltImg([i \in 1..141 |-> "x"]),
     <<Img(<< <<"src", ImgB>>, <<"title", Str("May 1, 2024")>>,
              <<"alt", Str("Two dogs talking")>> >>)>>,
     <<Img(<< <<"src", ImgB>>, <<"title", Str("Hover text")>>,
              <<"alt", Str("Bizarro")>> >>)>>,
     AltImg(Str("Two dogs talking")) \o Para(Str("Comic strip for 2024/05/01")) >>
CaptionDocumentAt(n) ==
  LET f == n % Len(CaptionFragments)
      n1 == n \div Len(CaptionFragments)
      t == n1 % Len(RssTitles)
      spare == n1 \div Len(RssTitles)
      first == Element("", "item", None, <<>>,
                       RssTitles[t + 1] \o RssLinks[2]
                       \o <<Leaf("", "description", Some(CaptionFragments[f + 1]))>>)
  IN RssDocument(<<first>> \o [i \in 1..spare |-> SpareItem])

\* The responses a feed GET may meet.  "feed" is every document above,
\* "batch" is a short list of them with one feed per way of ending, and
\* "caption" is the documents of the caption paths.
BatchDocuments ==
  << StructuralDocuments[1], StructuralDocuments[2], StructuralDocuments[3],
     RssDocument(<<>>),
     RssDocument(<<Element("", "item", None, <<>>,
                           RssLinks[2] \o Enclosures[2] \o Descriptions[5])>>),
     RssDocument(<<Element("", "item", None, <<>>, RssLinks[2] \o Enclosures[2])>>),
     RssDocument(<<Element("", "item", None, <<>>, RssLinks[3] \o Descriptions[10])>>),
     AtomDocument(AtomNs, <<Element(AtomNs, "entry", None, <<>>,
                                    AtomLinks(AtomNs)[2] \o AtomSummaries(AtomNs)[4])>>),
     StructuralDocuments[9], StructuralDocuments[10],
     RssDocument(<<Element("", "item", None, <<>>,
                           RssLinks[2] \o Enclosures[3] \o Descriptions[3])>>) >>
CorpusSize(corpus) ==
  IF corpus = "batch" THEN Len(BatchDocuments)
  ELSE IF corpus = "caption" THEN Len(CaptionFragments) * Len(RssTitles) * MaxItems
  ELSE Len(StructuralDocuments) + AtomCount + RssCount
DocumentAt(corpus, n) ==
  IF corpus = "batch" THEN BatchDocuments[n]
  ELSE IF corpus = "caption" THEN CaptionDocumentAt(n - 1)
  ELSE IF n <= Len(StructuralDocuments) THEN StructuralDocuments[n]
  ELSE IF n <= Len(StructuralDocuments) + AtomCount
  THEN AtomDocumentAt(n - Len(StructuralDocuments) - 1)
  ELSE RssDocumentAt(n - Len(StructuralDocuments) - AtomCount - 1)

\* statuses a probe may meet; an exception is the other answer
ProbeStatuses(corpus) == IF corpus = "batch" THEN {200, 399, 400, 403, 500} ELSE {200, 403, 404}
ProbeResponses(corpus) ==
  {[exc |-> FALSE, status |-> st] : st \in ProbeStatuses(corpus)} \cup {[exc |-> TRUE, status |-> 0]}
NoResponse == [exc |-> FALSE, status |-> 0]
NoDocument ==
  [fetch |-> "none", status |-> 0, xml |-> "none", root |-> NoRoot, detail |-> ""]

\* the mapping entries: the i-th entry of a batch
FeedUrl(i) == Str("https://feeds.example/") \o <<LowerChars[i]>>
FeedName(i) == Some(Str("feed ") \o <<LowerChars[i]>>)

\* ---------------------------------------------------------------- state
VARIABLES
  feeds,      \* the name -> URL mapping, as the sequence of its entries
  corpus,     \* which responses the network may give: "batch" or "feed"
  pc,         \* where validate_multiple_feeds stands
  idx,        \* the entry the loop is at (1-based)
  response,   \* the feed response of the entry being validated
  head,       \* the HEAD probe's response for that entry, NoResponse if none
  valid,      \* validate_multiple_feeds: valid
  invalid,    \* validate_multiple_feeds: invalid
  requests,   \* every request sent so far, in order
  session,    \* the validator's session defaults: headers, and self.timeout
  run,        \* create_updated_settings: where it stands and what it wrote
  last        \* the latest finished validate_feed call: inputs and outcome

validator ==
  <<feeds, corpus, pc, idx, response, head, valid, invalid, requests, session, last>>
vars == <<validator, run>>

\* a request as it leaves the session; referer is the Referer header it
\* carries: the one passed in headers=, else the session's default
Request(method, url, referer, entry) ==
  [method |-> method, url |-> url, referer |-> referer, entry |-> entry]

NoCall ==
  [entry |-> 0, response |-> NoDocument, head |-> NoResponse, get |-> NoResponse,
   outcome |-> Raise("none", <<>>)]

\* a validator as __init__ leaves it, about to run validate_multiple_feeds
Start(mapping, responses) ==
  /\ feeds = mapping
  /\ corpus = responses
  /\ pc = "loop"
  /\ idx = 1
  /\ response = NoDocument
  /\ head = NoResponse
  /\ valid = <<>>
  /\ invalid = <<>>
  /\ requests = <<>>
  /\ session = [headers |-> << <<"User-Agent",
                                Str("Mozilla/5.0 (compatible; ComicRSSValidator/1.0)")>> >>,
                timeout |-> 10]
  /\ last = NoCall

\* create_updated_settings is not running
NoRun ==
  [pc |-> "off", valid |-> <<>>, invalid |-> <<>>, settings_exists |-> FALSE,
   written |-> {}, status |-> 0, error |-> ""]

\* a batch of up to MaxFeeds entries
Init ==
  /\ \E n \in 0..MaxFeeds :
       Start([i \in 1..n |-> [name |-> FeedName(i), url |-> FeedUrl(i)]], "batch")
  /\ run = NoRun

\* a mapping of one entry, met by any document of the corpus
InitFeed == Start(<<[name |-> FeedName(1), url |-> FeedUrl(1)]>>, "feed") /\ run = NoRun

\* the same mapping, met by the documents of the caption paths
InitCaption ==
  Start(<<[name |-> FeedName(1), url |-> FeedUrl(1)]>>, "caption") /\ run = NoRun

\* the loop body, were the latest failure's message to stay attached to the
\* results that follow it (one result object shared across iterations)
FinishSharingFailure(outcome, doc, head_response, get_response) ==
  LET kept == IF outcome.t = "return" /\ Len(invalid) > 0
              THEN Return(InvalidResult(outcome.res.url, outcome.res.name,
                                        invalid[Len(invalid)].error_message[1], None),
                          outcome.calls)
              ELSE outcome
  IN /\ last' = [entry |-> idx, response |-> doc, head |-> head_response,
                 get |-> get_response, outcome |-> kept]
     /\ IF kept.t = "raise"
        THEN pc' = "raised" /\ UNCHANGED <<idx, valid, invalid>>
        ELSE /\ pc' = "loop"
             /\ idx' = idx + 1
             /\ IF kept.res.is_valid
                THEN valid' = Append(valid, kept.res) /\ UNCHANGED invalid
                ELSE invalid' = Append(invalid, kept.res) /\ UNCHANGED valid

\* the loop body with list.insert(0, result) in place of append
FinishPrepending(outcome, doc, head_response, get_response) ==
  /\ last' = [entry |-> idx, response |-> doc, head |-> head_response,
              get |-> get_response, outcome |-> outcome]
  /\ IF outcome.t = "raise"
     THEN pc' = "raised" /\ UNCHANGED <<idx, valid, invalid>>
     ELSE /\ pc' = "loop"
          /\ idx' = idx + 1
          /\ IF outcome.res.is_valid
             THEN valid' = <<outcome.res>> \o valid /\ UNCHANGED invalid
             ELSE invalid' = <<outcome.res>> \o invalid /\ UNCHANGED valid

\* the loop body with the two branches of "if result.is_valid" swapped
FinishInverted(outcome, doc, head_response, get_response) ==
  /\ last' = [entry |-> idx, response |-> doc, head |-> head_response,
              get |-> get_response, outcome |-> outcome]
  /\ IF outcome.t = "raise"
     THEN pc' = "raised" /\ UNCHANGED <<idx, valid, invalid>>
     ELSE /\ pc' = "loop"
          /\ idx' = idx + 1
          /\ IF outcome.res.is_valid
             THEN invalid' = Append(invalid, outcome.res) /\ UNCHANGED valid
             ELSE valid' = Append(valid, outcome.res) /\ UNCHANGED invalid

\* validate_feed has ended for the current entry: the loop body appends
\* its result, or the exception leaves validate_multiple_feeds
Finish(outcome, doc, head_response, get_response) ==
  /\ last' = [entry |-> idx, response |-> doc, head |-> head_response,
              get |-> get_response, outcome |-> outcome]
  /\ IF outcome.t = "raise"
     THEN pc' = "raised" /\ UNCHANGED <<idx, valid, invalid>>
     ELSE /\ pc' = "loop"
          /\ idx' = idx + 1
          /\ IF outcome.res.is_valid
             THEN valid' = Append(valid, outcome.res) /\ UNCHANGED invalid
             ELSE invalid' = Append(invalid, outcome.res) /\ UNCHANGED valid

\* for name, url in feeds.items(): validate_feed sends the feed GET
NextFeed ==
  /\ pc = "loop"
  /\ idx <= Len(feeds)
  /\ pc' = "feed_get"
  /\ requests' = Append(requests, Request("GET", feeds[idx].url,
                                          AttrGet(session.headers, "Referer"), idx))
  /\ response' = NoDocument
  /\ head' = NoResponse
  /\ UNCHANGED <<feeds, corpus, idx, valid, invalid, session, last, run>>

\* validate_feed goes on after an answer, were the Referer set with
\* session.headers.update() and not passed in headers=
ProceedKeepingReferer(outcome, waiting, next_pc, method, image_url, doc, head_response, get_response) ==
  IF waiting
  THEN /\ pc' = next_pc
       /\ requests' = Append(requests, Request(method, image_url, Some(feeds[idx].url), idx))
       /\ session' = [session EXCEPT !.headers =
                        Append(SelectSeq(@, LAMBDA h : h[1] # "Referer"),
                               <<"Referer", feeds[idx].url>>)]
       /\ UNCHANGED <<idx, valid, invalid, last>>
  ELSE /\ Finish(outcome, doc, head_response, get_response)
       /\ UNCHANGED <<requests, session>>

\* validate_feed went on after an answer: it stands at the next request of
\* _test_image_access (pc next_pc, request sent), or it has ended
Proceed(outcome, waiting, next_pc, method, image_url, doc, head_response, get_response) ==
  IF waiting
  THEN /\ pc' = next_pc
       /\ requests' = Append(requests, Request(method, image_url, Some(feeds[idx].url), idx))
       /\ UNCHANGED <<idx, valid, invalid, session, last>>
  ELSE /\ Finish(outcome, doc, head_response, get_response)
       /\ UNCHANGED <<requests, session>>

\* the feed GET answers, were a failed fetch tried once more
FeedAnsweredRetrying(doc, outcome) ==
  IF (doc.fetch = "error" \/ (doc.status >= 400 /\ doc.status < 600))
     /\ requests[Len(requests)].entry = idx
     /\ (Len(requests) = 1 \/ requests[Len(requests) - 1].entry # idx)
  THEN /\ pc' = "feed_get"
       /\ requests' = Append(requests, Request("GET", feeds[idx].url, None, idx))
       /\ UNCHANGED <<idx, response, head, valid, invalid, session, last>>
  ELSE /\ response' = doc
       /\ head' = NoResponse
       /\ Proceed(outcome, outcome.t = "probe", "image_head", "HEAD", outcome.image_url,
                  doc, NoResponse, NoResponse)

\* the feed GET answers: validate_feed runs up to its return or up to the
\* HEAD request of _test_image_access
FeedAnswered(doc, outcome) ==
  /\ response' = doc
  /\ head' = NoResponse
  /\ Proceed(outcome, outcome.t = "probe", "image_head", "HEAD", outcome.image_url,
             doc, NoResponse, NoResponse)
FeedResponse ==
  /\ pc = "feed_get"
  /\ \E n \in 1..CorpusSize(corpus) :
       FeedAnswered(DocumentAt(corpus, n),
                    ValidateFeed(feeds[idx].url, feeds[idx].name, DocumentAt(corpus, n),
                                 "unasked"))
  /\ UNCHANGED <<feeds, corpus, run>>

\* the HEAD answers, were the GET retry sent after a refusal as well
HeadAnsweredRetryingRefusal(r, verdict) ==
  /\ head' = r
  /\ Proceed(ValidateFeed(feeds[idx].url, feeds[idx].name, response, verdict),
             verdict \in {"get", "blocked"}, "image_get", "GET", requests[Len(requests)].url,
             response, r, NoResponse)

\* the HEAD answers: accessible, blocked, or the GET retry is sent
HeadAnswered(r, verdict) ==
  /\ head' = r
  /\ Proceed(ValidateFeed(feeds[idx].url, feeds[idx].name, response, verdict),
             verdict = "get", "image_get", "GET", requests[Len(requests)].url,
             response, r, NoResponse)
HeadResponse ==
  /\ pc = "image_head"
  /\ \E r \in ProbeResponses(corpus) : HeadAnswered(r, AfterHead(r))
  /\ UNCHANGED <<feeds, corpus, response, run>>

\* the GET retry answers
GetResponse ==
  /\ pc = "image_get"
  /\ \E r \in ProbeResponses(corpus) :
       Finish(ValidateFeed(feeds[idx].url, feeds[idx].name, response, AfterGet(r)),
              response, head, r)
  /\ UNCHANGED <<feeds, corpus, response, head, requests, session, run>>

\* return valid, invalid
ReturnLists ==
  /\ pc = "loop"
  /\ idx > Len(feeds)
  /\ pc' = "returned"
  /\ UNCHANGED <<feeds, corpus, idx, response, head, valid, invalid, requests, session,
                 last, run>>

Next == NextFeed \/ FeedResponse \/ HeadResponse \/ GetResponse \/ ReturnLists

Spec == Init /\ [][Next]_vars
SpecFeed == InitFeed /\ [][Next]_vars
SpecCaption == InitCaption /\ [][Next]_vars

\* ---------------------------------------------------------------- settings
\* generate-options.py, create_updated_settings.  run.valid and run.invalid
\* are the lengths of the valid and invalid lists of its four
\* validate_multiple_feeds calls (regular, other languages, political,
\* extra); run.written is the set of files the run has written so far.
MaxResults == 1   \* results in one list of one validate_multiple_feeds call
Total(counts) == counts[1] + counts[2] + counts[3] + counts[4]

\* the script starts; plugin/settings.yml is there or not
InitSettings ==
  /\ Start(<<>>, "batch")
  /\ \E exists \in BOOLEAN :
       run = [pc |-> "start", valid |-> <<0, 0, 0, 0>>, invalid |-> <<0, 0, 0, 0>>,
              settings_exists |-> exists, written |-> {}, status |-> 0, error |-> ""]

\* from the start to save_failed_feeds_report: the four batches are
\* validated, the summary divides by the number of results, and the report
\* is written when some feed failed
ValidateAllFeeds ==
  /\ run.pc = "start"
  /\ \E v \in [1..4 -> 0..MaxResults], i \in [1..4 -> 0..MaxResults] :
       run' = IF Total(v) + Total(i) = 0
              THEN [run EXCEPT !.pc = "exit", !.status = 1, !.error = "ZeroDivisionError"]
              ELSE [run EXCEPT !.pc = "settings", !.valid = v, !.invalid = i,
                               !.written = IF Total(i) > 0
                                           THEN @ \cup {"data/failed_feeds_report.yml"}
                                           ELSE @]
  /\ UNCHANGED validator

\* "Load existing settings.yml and update only custom_fields"
UpdateSettings ==
  /\ run.pc = "settings"
  /\ run' = IF ~run.settings_exists
            THEN [run EXCEPT !.pc = "exit", !.status = 1, !.error = "settings.yml not found"]
            ELSE [run EXCEPT !.pc = "gate", !.written = @ \cup {"plugin/settings.yml"}]
  /\ UNCHANGED validator

\* the two abort checks, then the overview JSON, the HTML page and the
\* Atom demo feed
AbortOrPublish ==
  /\ run.pc = "gate"
  /\ run' = IF Total(run.valid) = 0
            THEN [run EXCEPT !.pc = "exit", !.status = 1,
                             !.error = "ABORT: Zero valid feeds"]
            ELSE IF Total(run.valid) < Total(run.invalid)
            THEN [run EXCEPT !.pc = "exit", !.status = 1,
                             !.error = "ABORT: More invalid than valid feeds"]
            ELSE [run EXCEPT !.pc = "exit",
                             !.written = @ \cup {"data/comic_overview_data.json",
                                                 "index.html", "data/demo_data.atom"}]
  /\ UNCHANGED validator

NextSettings == ValidateAllFeeds \/ UpdateSettings \/ AbortOrPublish
SpecSettings == InitSettings /\ [][NextSettings]_vars

\* ---------------------------------------------------------------- properties
\* What the properties read: the latest finished validate_feed call (last),
\* its result, and the first item / entry of the document it was given.
Ended == last.entry > 0 /\ last.outcome.t = "return"
Res == last.outcome.res
Root == last.response.root
Parsed == last.response.fetch = "ok" /\ last.response.xml = "ok"
RssItemsOf(root) ==
  IF IsNone(Find(root, "", "channel")) THEN <<>>
  ELSE FindAll(Find(root, "", "channel")[1], "", "item")
RssCase == Ended /\ Parsed /\ Root.tag = "rss" /\ Len(RssItemsOf(Root)) > 0
AtomCase == Ended /\ Parsed /\ Root.tag = "feed" /\ Len(AtomEntries(Root)) > 0
Item == RssItemsOf(Root)[1]
Entry == AtomEntries(Root)[1]
ItemLink == TextOf(Find(Item, "", "link"))
ItemDescription == TextOf(Find(Item, "", "description"))
ItemEnclosure ==
  IF IsNone(Find(Item, "", "enclosure")) THEN None
  ELSE AttrGet(Find(Item, "", "enclosure")[1].attrs, "url")
EntryLink ==
  IF IsNone(FindAtom(Entry, "link")) THEN None
  ELSE AttrGet(FindAtom(Entry, "link")[1].attrs, "href")
EntrySummary == TextOf(FindAtom(Entry, "summary"))
\* URL-syntax validity stated on urlparse: non-empty scheme and host
SchemeAndHost(u) ==
  /\ ~UrlParse(u).error
  /\ Len(UrlParse(u).scheme) > 0
  /\ Len(UrlParse(u).netloc) > 0
BothPhrases(text) ==
  /\ Truthy(text)
  /\ Contains(Lower(Render(text[1])), Str("explore the archive"))
  /\ Contains(Lower(Render(text[1])), Str("read extra content"))
MarkerImage(text) ==
  /\ Truthy(ImageOf(ParserOf(text)))
  /\ HasPromoMarker(ImageOf(ParserOf(text))[1])
DatedLink(link) == Truthy(link) /\ AnyDigit(LastSegment(link[1]))
\* the verdict of _test_image_access for the probe responses of the call
ProbeSent == last.head # NoResponse
Accessible ==
  /\ ProbeSent
  /\ \/ AfterHead(last.head) = "accessible"
     \/ AfterHead(last.head) = "get" /\ AfterGet(last.get) = "accessible"

\* C1: validate_multiple_feeds never raises, and when it returns the two
\* lists together hold exactly one result per mapping entry (one per entry
\* already processed while it runs), whatever each feed's fetch, parse,
\* item extraction, probe or caption extraction did.
C1_Totality ==
  /\ pc # "raised"
  /\ Len(valid) + Len(invalid) = idx - 1
  /\ pc = "returned" => Len(valid) + Len(invalid) = Len(feeds)
\* a full batch returned, one entry valid, one an exception inside validate_feed
C1_Witness ==
  /\ pc = "returned"
  /\ Len(feeds) >= 2
  /\ Len(valid) >= 1
  /\ \E i \in 1..Len(invalid) :
       invalid[i].error_message
         = Some("Unexpected error: 'NoneType' object has no attribute 'text'")

\* C2: for every result of validate_feed, is_valid holds exactly when
\* image_url is present, has a non-empty scheme and host, and image_source
\* is set; a valid result also has feed_type set.
C2_ValidityCoherence ==
  Ended =>
    /\ Res.is_valid <=> /\ ~IsNone(Res.image_url)
                        /\ SchemeAndHost(Res.image_url[1])
                        /\ ~IsNone(Res.image_source)
    /\ Res.is_valid => ~IsNone(Res.feed_type)
\* a valid result on one side, and on the other an invalid one for an item
\* whose only image has neither scheme nor host
C2_Witness ==
  /\ RssCase
  /\ ~Res.is_valid
  /\ ItemEnclosure = Some(ImgRelative)
  /\ IsNone(ItemDescription)
  /\ Res.error_message
       = Some("No valid image found in enclosure, description, or content:encoded")

\* C3: validity is all-or-nothing: an invalid result has error_message set
\* and image_url, image_source, comic_title, link and caption unset; a
\* valid result has error_message unset.
C3_AllOrNothing ==
  Ended =>
    IF Res.is_valid THEN IsNone(Res.error_message)
    ELSE /\ ~IsNone(Res.error_message)
         /\ IsNone(Res.image_url)
         /\ IsNone(Res.image_source)
         /\ IsNone(Res.comic_title)
         /\ IsNone(Res.link)
         /\ IsNone(Res.caption)
\* an item with title, link, image and a caption candidate, refused by the probe
C3_Witness ==
  /\ RssCase
  /\ ~Res.is_valid
  /\ Res.error_message = Some(HotlinkMessage)
  /\ ~IsNone(Find(Item, "", "title"))
  /\ Truthy(ItemLink)
  /\ Truthy(ItemDescription)
  /\ ~IsNone(TitleCaption(ParserOf(ItemDescription)[1]))

\* C4: an RSS item (Atom entry) whose link is missing or has a last path
\* segment without a digit, and whose description (summary) text holds both
\* promo phrases in any letter case, is returned invalid as generic
\* promotional content, whether or not it carries an image.
C4_PromoRejection ==
  /\ RssCase /\ ~DatedLink(ItemLink) /\ BothPhrases(ItemDescription)
       => ~Res.is_valid /\ Res.error_message = Some(PromoMessage)
  /\ AtomCase /\ ~DatedLink(EntryLink) /\ BothPhrases(EntrySummary)
       => ~Res.is_valid /\ Res.error_message = Some(PromoMessage)
\* promo text without a marker image, next to a valid enclosure
C4_Witness ==
  /\ RssCase
  /\ ~DatedLink(ItemLink)
  /\ BothPhrases(ItemDescription)
  /\ ~MarkerImage(ItemDescription)
  /\ ItemEnclosure = Some(ImgA)
  /\ Res.error_message = Some(PromoMessage)

\* C5: when the last "/"-separated segment of the first item's link (RSS
\* link text, Atom link href) holds a digit, the feed is never rejected as
\* generic promotional content, even with a promo marker in the image URL
\* and both promo phrases in the text.
C5_DatedLinkOverride ==
  /\ RssCase /\ DatedLink(ItemLink) => Res.error_message # Some(PromoMessage)
  /\ AtomCase /\ DatedLink(EntryLink) => Res.error_message # Some(PromoMessage)
\* an Atom entry with a dated link, marker image and both phrases, accepted
C5_Witness ==
  /\ AtomCase
  /\ DatedLink(EntryLink)
  /\ MarkerImage(EntrySummary)
  /\ BothPhrases(EntrySummary)
  /\ Res.is_valid
  /\ Res.image_url = Some(ImgPromo)

\* C6: for a non-promo RSS first item with an enclosure whose url is
\* syntactically valid, a description whose <img> has a different src, and
\* an accessible enclosure image, the result is valid with image_url the
\* enclosure url and image_source "enclosure".
C6_EnclosurePriority ==
  ( /\ RssCase
    /\ ~IsGenericPromoRss(Item, None)
    /\ Truthy(ItemEnclosure)
    /\ SchemeAndHost(ItemEnclosure[1])
    /\ Truthy(ImageOf(ParserOf(ItemDescription)))
    /\ ImageOf(ParserOf(ItemDescription)) # ItemEnclosure
    /\ Accessible )
  => /\ Res.is_valid
     /\ Res.image_url = ItemEnclosure
     /\ Res.image_source = Some("enclosure")
\* both images are syntactically valid and the enclosure's is the one kept
C6_Witness ==
  /\ RssCase
  /\ ItemEnclosure = Some(ImgA)
  /\ ImageOf(ParserOf(ItemDescription)) = Some(ImgB)
  /\ Accessible
  /\ Res.is_valid
  /\ Res.image_url = Some(ImgA)
  /\ Res.image_source = Some("enclosure")

\* C7: when the HEAD probe of the accepted image, sent with Referer = the
\* feed URL, answers 403, the result is invalid with the hotlink message,
\* comic_title and caption are unset, and caption extraction never ran.
C7_HotlinkOverride ==
  (Ended /\ ProbeSent /\ ~last.head.exc /\ last.head.status = 403)
  => /\ ~Res.is_valid
     /\ Res.error_message = Some(HotlinkMessage)
     /\ IsNone(Res.comic_title)
     /\ IsNone(Res.caption)
     /\ last.outcome.calls = <<"promo", "probe">>
     /\ \E i \in 1..Len(requests) :
          /\ requests[i].method = "HEAD"
          /\ requests[i].entry = last.entry
          /\ requests[i].referer = Some(feeds[last.entry].url)
\* an Atom entry with a title and a usable img title, refused with 403
C7_Witness ==
  /\ AtomCase
  /\ last.head = [exc |-> FALSE, status |-> 403]
  /\ Res.error_message = Some(HotlinkMessage)
  /\ ~IsNone(TitleCaption(ParserOf(EntrySummary)[1]))

\* C8: an RSS first item with a dated link, an enclosure with a
\* syntactically valid and accessible url, a description that is empty or
\* missing and no content:encoded yields a valid result with image_source
\* "enclosure", image_url the enclosure url and no caption.
C8_EnclosureAlone ==
  ( /\ RssCase
    /\ DatedLink(ItemLink)
    /\ Truthy(ItemEnclosure)
    /\ SchemeAndHost(ItemEnclosure[1])
    /\ ~Truthy(ItemDescription)
    /\ IsNone(Find(Item, ContentNs, "encoded"))
    /\ Accessible )
  => /\ Res.is_valid
     /\ Res.image_source = Some("enclosure")
     /\ Res.image_url = ItemEnclosure
     /\ IsNone(Res.caption)

\* the item has no <description> element: validate_feed reports the
\* AttributeError of description.text instead of the enclosure image
C8_Witness ==
  /\ RssCase
  /\ DatedLink(ItemLink)
  /\ ItemEnclosure = Some(ImgA)
  /\ IsNone(Find(Item, "", "description"))
  /\ IsNone(Find(Item, ContentNs, "encoded"))
  /\ Accessible
  /\ ~Res.is_valid
  /\ Res.error_message
       = Some("Unexpected error: 'NoneType' object has no attribute 'text'")
  /\ IsNone(Res.feed_type)

\* C9: every caption stored in a result has trimmed length 1..200 and is
\* not generic for _is_generic_caption; an img title that the filter
\* rejects never becomes the caption, and the feed stays valid without one.
C9_CaptionFiltered ==
  /\ (Ended /\ ~IsNone(Res.caption))
       => /\ Len(Strip(Res.caption[1])) \in 1..200
          /\ ~IsGenericCaption(Res.caption[1])
  /\ ( /\ AtomCase
       /\ Accessible
       /\ Truthy(EntrySummary)
       /\ Truthy(ParserOf(EntrySummary)[1].image_title)
       /\ IsGenericCaption(ParserOf(EntrySummary)[1].image_title[1])
       /\ ~Truthy(ParserOf(EntrySummary)[1].image_alt) )
     => Res.is_valid /\ IsNone(Res.caption)
\* the img title is date boilerplate: the feed is valid, the caption absent
C9_Witness ==
  /\ AtomCase
  /\ Truthy(EntrySummary)
  /\ ParserOf(EntrySummary)[1].image_title = Some(Str("Comic strip for 2024/05/01"))
  /\ Res.is_valid
  /\ Res.image_url = Some(ImgB)
  /\ IsNone(Res.caption)

\* C10: a root that is neither rss nor feed, an RSS root without channel, a
\* channel without items and an Atom feed without entries each end in an
\* invalid result with the matching message (the unknown-root one carrying
\* the tag), with no promo check, no probe request and no caption extraction.
C10_StructuralStop ==
  (last.entry > 0 /\ Parsed) =>
    LET message ==
          IF Root.tag \notin {"rss", "feed"} THEN "Unknown feed type: " \o TagString(Root)
          ELSE IF Root.tag = "rss" /\ IsNone(Find(Root, "", "channel"))
          THEN "No channel element found in RSS"
          ELSE IF Root.tag = "rss" /\ Len(RssItemsOf(Root)) = 0
          THEN "No items found in RSS feed"
          ELSE IF Root.tag = "feed" /\ Len(AtomEntries(Root)) = 0
          THEN "No entries found in Atom feed"
          ELSE ""
    IN message # "" =>
         /\ last.outcome.t = "return"
         /\ ~Res.is_valid
         /\ Res.error_message = Some(message)
         /\ last.outcome.calls = <<>>
         /\ \A i \in 1..Len(requests) :
              requests[i].entry = last.entry
                => requests[i].method = "GET" /\ IsNone(requests[i].referer)
\* the namespaced root of an RSS 1.0 document is reported with its tag
C10_Witness ==
  /\ Ended
  /\ Root.tag = "RDF"
  /\ Res.error_message
       = Some("Unknown feed type: {http://www.w3.org/1999/02/22-rdf-syntax-ns#}RDF")
  /\ Len(requests) = 1

\* what _test_image_access answered for the probe responses of a call
VerdictOf(head_response, get_response) ==
  IF head_response = NoResponse THEN "unasked"
  ELSE IF AfterHead(head_response) = "get" THEN AfterGet(get_response)
  ELSE AfterHead(head_response)
\* validate_feed for one mapping entry on its own: its name, its URL and
\* the responses to its own requests
Alone(entry, doc, head_response, get_response) ==
  ValidateFeed(entry.url, entry.name, doc, VerdictOf(head_response, get_response))
\* the place of a result's entry in the mapping (names are unique)
Position(res) ==
  CHOOSE i \in 1..Len(feeds) : feeds[i].name = res.name /\ feeds[i].url = res.url
InMappingOrder(list) ==
  \A j \in 1..Len(list) : \A k \in (j + 1)..Len(list) : Position(list[j]) < Position(list[k])
IsPrefix(s, t) == Len(s) <= Len(t) /\ SubSeq(t, 1, Len(s)) = s

C12_OneAtATime ==
  /\ \A k \in 1..Len(requests) :
       /\ requests[k].entry <= idx
       /\ pc \in {"loop", "returned"} => requests[k].entry < idx
       /\ \A l \in k..Len(requests) : requests[k].entry <= requests[l].entry
  /\ pc \in {"feed_get", "image_head", "image_get"}
       => Len(requests) > 0 /\ requests[Len(requests)].entry = idx
  /\ Len(valid) + Len(invalid) = idx - 1
  /\ InMappingOrder(valid)
  /\ InMappingOrder(invalid)
\* two entries, each with feed GET, HEAD and GET retry, both valid
C12_Witness ==
  /\ pc = "returned"
  /\ Len(valid) = 2
  /\ [k \in 1..Len(requests) |-> <<requests[k].entry, requests[k].method>>]
       = << <<1, "GET">>, <<1, "HEAD">>, <<1, "GET">>,
            <<2, "GET">>, <<2, "HEAD">>, <<2, "GET">> >>

\* C13: the two lists partition the results by is_valid: valid holds only
\* valid results, invalid only invalid ones, the result of every entry
\* handled so far is in exactly one list, once, and a step only ever
\* appends to a list (what was appended stays, in place and unchanged).
C13_Partition ==
  /\ [](/\ \A j \in 1..Len(valid) : valid[j].is_valid
        /\ \A j \in 1..Len(invalid) : ~invalid[j].is_valid
        /\ \A i \in 1..(idx - 1) :
             Cardinality({j \in 1..Len(valid) : valid[j].name = feeds[i].name})
             + Cardinality({j \in 1..Len(invalid) : invalid[j].name = feeds[i].name}) = 1)
  /\ [][IsPrefix(valid, valid') /\ IsPrefix(invalid, invalid')]_vars
\* both lists hold a result when validate_multiple_feeds returns
C13_Witness ==
  /\ pc = "returned"
  /\ Len(valid) = 1
  /\ Len(invalid) = 1
  /\ valid[1].name = feeds[2].name
  /\ invalid[1].name = feeds[1].name

\* the texts the image is looked for in, besides the description / summary
ItemContent ==
  TextOf(IF IsNone(Find(Item, ContentNs, "encoded")) THEN Find(Item, "", "content:encoded")
         ELSE Find(Item, ContentNs, "encoded"))
EntryContent == TextOf(FindAtom(Entry, "content"))
FirstImg(text) == ImageOf(ParserOf(text))

C15_FeedTypeSet ==
  Ended =>
    IF Parsed /\ Root.tag = "rss" THEN Res.feed_type = Some("rss")
    ELSE IF Parsed /\ Root.tag = "feed" THEN Res.feed_type = Some("atom")
    ELSE IsNone(Res.feed_type)
\* an RSS item whose enclosure url makes urlparse raise: the result built
\* by "except Exception" has lost the feed type
C15_Witness ==
  /\ RssCase
  /\ ItemEnclosure = Some(ImgBracket)
  /\ ~Res.is_valid
  /\ Res.error_message = Some("Unexpected error: Invalid IPv6 URL")
  /\ IsNone(Res.feed_type)

\* the probe requests of the latest call, as the request log shows them
GetSent == last.get # NoResponse
ProbeRequests(method) ==
  {k \in 1..Len(requests) :
     /\ requests[k].entry = last.entry
     /\ requests[k].method = method
     /\ ~IsNone(requests[k].referer)}

\* C16: when no probe request raises, the image is reported inaccessible
\* exactly when the HEAD status is 403, or the HEAD status is >= 400 (not
\* 403) and the status of the single GET retry is >= 400 as well; the retry
\* is sent in that second case alone; an inaccessible image makes the feed
\* invalid with the hotlink message, an accessible one never does.
C16_ProbeVerdict ==
  (Ended /\ ProbeSent /\ ~last.head.exc /\ ~last.get.exc) =>
    LET h == last.head.status
        g == last.get.status
        inaccessible == h = 403 \/ (h >= 400 /\ h # 403 /\ g >= 400)
    IN /\ GetSent <=> (h >= 400 /\ h # 403)
       /\ Cardinality(ProbeRequests("HEAD")) = 1
       /\ Cardinality(ProbeRequests("GET")) = IF GetSent THEN 1 ELSE 0
       /\ inaccessible => ~Res.is_valid /\ Res.error_message = Some(HotlinkMessage)
       /\ ~inaccessible => Res.error_message # Some(HotlinkMessage)
\* HEAD 500, then the retry 400: refused, on a status that is not 403
C16_Witness ==
  /\ Ended
  /\ last.head = [exc |-> FALSE, status |-> 500]
  /\ last.get = [exc |-> FALSE, status |-> 400]
  /\ ~Res.is_valid
  /\ Res.error_message = Some(HotlinkMessage)

\* C17: a transport exception from the HEAD probe, or from the GET retry
\* after a HEAD status >= 400 other than 403, counts as accessible: the
\* result is never the hotlink one, it is the result the feed gets when the
\* HEAD answers 200, and a feed valid with HEAD 200 is returned valid.
C17_OptimisticProbe ==
  ( /\ Ended
    /\ ProbeSent
    /\ \/ last.head.exc
       \/ /\ ~last.head.exc /\ last.head.status >= 400 /\ last.head.status # 403
          /\ GetSent /\ last.get.exc )
  => /\ Res.error_message # Some(HotlinkMessage)
     /\ last.head.exc => ~GetSent
     /\ last.outcome
          = Alone(feeds[last.entry], last.response, [exc |-> FALSE, status |-> 200], NoResponse)
     /\ Alone(feeds[last.entry], last.response,
              [exc |-> FALSE, status |-> 200], NoResponse).res.is_valid
          => Res.is_valid
\* HEAD 500, then the retry fails in transport: the feed is valid
C17_Witness ==
  /\ Ended
  /\ last.head = [exc |-> FALSE, status |-> 500]
  /\ last.get = [exc |-> TRUE, status |-> 0]
  /\ Res.is_valid
  /\ ~IsNone(Res.image_url)

\* an Optional URL that is present with a non-empty scheme and host
ValidImg(u) == Truthy(u) /\ SchemeAndHost(u[1])

\* C18: for a non-promo Atom first entry whose summary yields no
\* syntactically valid img src (summary missing, empty, or HTML without a
\* valid image) and whose content holds an img with a syntactically valid
\* src, the content image is the one probed and, if accessible, the feed
\* is valid with that image_url.
C18_AtomFallback ==
  ( /\ AtomCase
    /\ ~IsGenericPromoAtom(Entry, None, FindAtom(Entry, "link"))
    /\ ~ValidImg(FirstImg(EntrySummary))
    /\ ValidImg(FirstImg(EntryContent))
    /\ ProbeSent => Accessible )
  => /\ ProbeSent
     /\ \E k \in ProbeRequests("HEAD") : Some(requests[k].url) = FirstImg(EntryContent)
     /\ Res.is_valid
     /\ Res.image_url = FirstImg(EntryContent)
\* the summary is text without an image: <content> is never read and the
\* feed is reported to have no image
C18_Witness ==
  /\ AtomCase
  /\ EntrySummary = Some(<<Text(Str("No picture today"))>>)
  /\ FirstImg(EntryContent) = Some(ImgC)
  /\ ~ProbeSent
  /\ ~Res.is_valid
  /\ Res.error_message = Some("No valid image found in summary or content")

\* The arguments _extract_caption was called with for a valid result: the
\* parser (read off the text it was fed) and description_html.
CaptionParser ==
  CASE Res.image_source = Some("enclosure") ->
         ParserOf(IF Truthy(ItemContent) THEN ItemContent ELSE ItemDescription)
    [] Res.image_source = Some("description") -> ParserOf(ItemDescription)
    [] Res.image_source = Some("content:encoded") -> ParserOf(ItemContent)
    [] OTHER -> ParserOf(IF Truthy(EntrySummary) THEN EntrySummary ELSE EntryContent)
CaptionHtml ==
  IF Res.image_source \in {Some("enclosure"), Some("description")} THEN ItemDescription
  ELSE None
\* the first of the three candidates that passes its own checks
ParagraphPasses(html) ==
  ParagraphCaption(html)[1] = "return" /\ ~IsNone(ParagraphCaption(html)[2])
FirstPassing(parser, item_title, feed_name, html) ==
  IF IsNone(parser) THEN None
  ELSE IF ParagraphPasses(html) THEN ParagraphCaption(html)[2]
  ELSE IF ~IsNone(TitleCaption(parser[1])) THEN TitleCaption(parser[1])
  ELSE AltCaption(parser[1], item_title, feed_name)

\* C19: _extract_caption tries the structural paragraph, then the img
\* title, then the img alt, and returns the first candidate that passes its
\* checks; a rejected earlier candidate (a generic following paragraph
\* included) never keeps a later passing one from being returned, and the
\* caption is absent only if no candidate passes.
C19_CaptionPriority ==
  (Ended /\ Res.is_valid) =>
    Res.caption = FirstPassing(CaptionParser, Res.comic_title, Res.name, CaptionHtml)
\* the paragraph after the image is date boilerplate and the img title is
\* usable: the result has no caption
C19_Witness ==
  /\ RssCase
  /\ Res.is_valid
  /\ Res.image_source = Some("description")
  /\ ParagraphCaption(ItemDescription) = <<"return", None>>
  /\ TitleCaption(ParserOf(ItemDescription)[1]) = Some(Str("Hover text"))
  /\ IsNone(Res.caption)

\* The <p> that follows the first <img> of the item's description (0 when
\* there is none), its trimmed text, and the claim's conditions on it.
NextParagraph == FindNextP(ItemDescription[1], SoupFindImg(ItemDescription[1]))
ParagraphText == Strip(GetText(ItemDescription[1], NextParagraph))
QuoteOrEmphasis ==
  \/ Contains(ParagraphText, Str("\""))
  \/ HasEmphasisChild(ItemDescription[1], NextParagraph)
  \/ Contains(StyleOf(ItemDescription[1], NextParagraph), Str("italic"))
\* panel N, leading panel, narration, sfx, colon: in any letter case
LooksLikeTranscript(text) ==
  LET low == Lower(text)
  IN \/ \E i \in 1..(Len(low) - 4) :
          /\ SubSeq(low, i, i + 4) = Str("panel")
          /\ \E j \in (i + 5)..Len(low) :
               /\ low[j] \in DigitSet
               /\ \A m \in (i + 5)..(j - 1) : low[m] \in SpaceSet
     \/ Len(low) >= 5 /\ SubSeq(low, 1, 5) = Str("panel")
     \/ Contains(low, Str("narration"))
     \/ Contains(low, Str("sfx"))
     \/ Contains(low, Str(":"))

\* C20: when an RSS item's image is taken from its description and the
\* description has a <p> following the first <img> whose trimmed text has
\* length 1..200, is not generic, shows a quote-or-emphasis signal (a
\* double quote in the text, an i/em child, an italic style) and matches
\* no transcript pattern, the result's caption is exactly that paragraph
\* text, in preference to the img title and alt.
C20_ParagraphAccepted ==
  ( /\ RssCase
    /\ Res.is_valid
    /\ Res.image_source = Some("description")
    /\ NextParagraph # 0
    /\ Len(ParagraphText) \in 1..200
    /\ ~IsGenericCaption(ParagraphText)
    /\ QuoteOrEmphasis
    /\ ~LooksLikeTranscript(ParagraphText) )
  => Res.caption = Some(ParagraphText)
\* an emphasised paragraph is the caption although the img title is usable
C20_Witness ==
  /\ RssCase
  /\ Res.is_valid
  /\ Res.image_source = Some("description")
  /\ HasEmphasisChild(ItemDescription[1], NextParagraph)
  /\ ~Contains(ParagraphText, Str("\""))
  /\ TitleCaption(ParserOf(ItemDescription)[1]) = Some(Str("Hover text"))
  /\ Res.caption = Some(Str("Later that day"))

\* the raw HTML that supplied the image of a valid result
SourceHtml ==
  CASE Res.image_source = Some("description") -> ItemDescription
    [] Res.image_source = Some("content:encoded") -> ItemContent
    [] Res.image_source = Some("summary") ->
         IF Truthy(EntrySummary) THEN EntrySummary ELSE EntryContent
    [] OTHER -> None

\* C21: the structural paragraph is tried for every source that supplied
\* the image: an image accepted from RSS description or content:encoded, or
\* from Atom summary or content, whose HTML has an acceptable quoted
\* paragraph after the first <img> gets that paragraph as its caption.
C21_ParagraphEverySource ==
  (Ended /\ Res.is_valid /\ ParagraphPasses(SourceHtml))
    => Res.caption = ParagraphCaption(SourceHtml)[2]
\* an Atom summary with a quoted paragraph after its image: the caption is
\* the img title, the paragraph was never read
C21_Witness ==
  /\ AtomCase
  /\ Res.is_valid
  /\ Res.image_source = Some("summary")
  /\ EntrySummary = Some(Fragments[6])
  /\ ParagraphCaption(EntrySummary) = <<"return", Some(Str("He muttered, \"not again.\""))>>
  /\ Res.caption = Some(Str("Hover text"))

\* the first item (entry) is generic promotional content: its link is not
\* dated and its description (summary) has a marker image or both phrases
PromoItem ==
  \/ /\ RssCase
     /\ ~DatedLink(ItemLink)
     /\ BothPhrases(ItemDescription) \/ MarkerImage(ItemDescription)
  \/ /\ AtomCase
     /\ ~DatedLink(EntryLink)
     /\ BothPhrases(EntrySummary) \/ MarkerImage(EntrySummary)
\* the same for the document of the call that is still under way
PromoUnderWay ==
  IF response.root.tag = "rss"
  THEN LET item == RssItemsOf(response.root)[1]
           text == TextOf(Find(item, "", "description"))
       IN ~DatedLink(TextOf(Find(item, "", "link")))
          /\ (BothPhrases(text) \/ MarkerImage(text))
  ELSE LET entry == AtomEntries(response.root)[1]
           text == TextOf(FindAtom(entry, "summary"))
       IN ~DatedLink(IF IsNone(FindAtom(entry, "link")) THEN None
                     ELSE AttrGet(FindAtom(entry, "link")[1].attrs, "href"))
          /\ (BothPhrases(text) \/ MarkerImage(text))

\* C22: promo rejection ends the feed's pipeline: a first item classified
\* as generic promotional content gives the invalid promo result with no
\* image located, no probe request (HEAD or GET) sent and no caption
\* extracted; a probe request is only ever sent for an item the promo check
\* has passed.
C22_PromoStops ==
  /\ PromoItem =>
       /\ ~Res.is_valid
       /\ Res.error_message = Some(PromoMessage)
       /\ IsNone(Res.image_url)
       /\ IsNone(Res.caption)
       /\ last.outcome.calls = <<"promo">>
       /\ ~ProbeSent
       /\ ProbeRequests("HEAD") = {} /\ ProbeRequests("GET") = {}
  /\ pc \in {"image_head", "image_get"} => ~PromoUnderWay
  /\ (Ended /\ ProbeSent) =>
       /\ Len(last.outcome.calls) >= 2
       /\ last.outcome.calls[1] = "promo"
       /\ last.outcome.calls[2] = "probe"
\* an Atom entry with a marker image that is syntactically valid: rejected
\* after the feed GET alone
C22_Witness ==
  /\ AtomCase
  /\ PromoItem
  /\ ValidImg(FirstImg(EntrySummary))
  /\ ~BothPhrases(EntrySummary)
  /\ Res.error_message = Some(PromoMessage)
  /\ Len(requests) = 1

\* the requests sent for the i-th entry, in order
RequestsOf(i) == SelectSeq(requests, LAMBDA r : r.entry = i)
FeedGets(i) ==
  {k \in 1..Len(requests) :
     /\ requests[k].entry = i
     /\ requests[k].method = "GET"
     /\ requests[k].url = feeds[i].url}

\* the feed GET of the finished call failed: get() raised, or the response
\* carried a status in the given set
GetFailed(statuses) ==
  Ended /\ (last.response.fetch = "error" \/ last.response.status \in statuses)
RequestFailed ==
  /\ ~Res.is_valid
  /\ Res.error_message = Some("Request failed: " \o last.response.detail)
  /\ Len(RequestsOf(last.entry)) = 1
ExactlyOneGet ==
  \A i \in 1..Len(feeds) :
    /\ i < idx \/ (i = idx /\ pc \notin {"loop", "returned"})
         => /\ Cardinality(FeedGets(i)) = 1
            /\ RequestsOf(i)[1] = Request("GET", feeds[i].url, None, i)
    /\ i > idx \/ (i = idx /\ pc \in {"loop", "returned"}) => RequestsOf(i) = <<>>

NoImageMessage == "No valid image found in enclosure, description, or content:encoded"
FirstValid(cands) ==
  IF ValidImg(cands[1]) THEN 1
  ELSE IF ValidImg(cands[2]) THEN 2
  ELSE IF ValidImg(cands[3]) THEN 3 ELSE 0
Fallthrough(cands, k) ==
  IF k = 0
  THEN ~Res.is_valid /\ Res.error_message = Some(NoImageMessage) /\ ~ProbeSent
  ELSE /\ Res.error_message # Some(NoImageMessage)
       /\ ProbeSent
       /\ \A j \in ProbeRequests("HEAD") : Some(requests[j].url) = cands[k]
       /\ Res.is_valid =>
            /\ Res.image_url = cands[k]
            /\ Res.image_source = Some(<<"enclosure", "description", "content:encoded">>[k])
RssCandidates == <<ItemEnclosure, FirstImg(ItemDescription), FirstImg(ItemContent)>>

\* C24: for a non-promo RSS first item the image that is probed and, on a
\* valid result, returned is the first syntactically valid URL among the
\* enclosure url, the first img of the description and the first img of
\* content:encoded; missing or invalid candidates are skipped, and the
\* result is the no-image error exactly when none of the three is valid.
C24_ImageFallthrough ==
  (RssCase /\ ~PromoItem) => Fallthrough(RssCandidates, FirstValid(RssCandidates))
\* the enclosure url has an unmatched bracket and the description holds a
\* valid image: nothing is probed and the feed ends with urlparse's error
C24_Witness ==
  /\ RssCase
  /\ ~PromoItem
  /\ ItemEnclosure = Some(ImgBracket)
  /\ FirstImg(ItemDescription) = Some(ImgB)
  /\ ~ProbeSent
  /\ ~Res.is_valid
  /\ Res.error_message = Some("Unexpected error: Invalid IPv6 URL")

\* C25: the promo marker is looked for in the first img of the description
\* (RSS) or summary (Atom), whichever source would supply the accepted
\* image: an item with an undated link and a marker image there is rejected
\* as promo, unprobed, even next to a valid enclosure; a marker in the
\* enclosure url alone rejects nothing.
C25_MarkerInDescription ==
  /\ (RssCase /\ ~DatedLink(ItemLink) /\ MarkerImage(ItemDescription))
       => ~Res.is_valid /\ Res.error_message = Some(PromoMessage) /\ ~ProbeSent
  /\ (AtomCase /\ ~DatedLink(EntryLink) /\ MarkerImage(EntrySummary))
       => ~Res.is_valid /\ Res.error_message = Some(PromoMessage) /\ ~ProbeSent
  /\ (RssCase /\ ~MarkerImage(ItemDescription) /\ ~BothPhrases(ItemDescription))
       => Res.error_message # Some(PromoMessage)
\* a marker image in the description, without the promo phrases, next to a
\* valid enclosure that would have been accepted first
C25_Witness ==
  /\ RssCase
  /\ ~DatedLink(ItemLink)
  /\ MarkerImage(ItemDescription)
  /\ ~BothPhrases(ItemDescription)
  /\ ValidImg(ItemEnclosure)
  /\ ~ProbeSent
  /\ Res.error_message = Some(PromoMessage)

\* the checks an img alt has to pass, stated on the trimmed text
AltPasses(text, item_title, feed_name) ==
  /\ ~LooksLikeTranscript(text)
  /\ ~Contains(text, <<"u2014">>)
  /\ \A t \in {item_title, feed_name} : Truthy(t) => Lower(text) # Lower(t[1])
  /\ ~(/\ Len(text) >= 2
       /\ text[1] \in UpperSet
       /\ \A i \in 2..Len(text) : text[i] \in LowerSet)
  /\ \A word \in AltGenericWords : ~Contains(Lower(text), word)
  /\ ~IsGenericCaption(text)
  /\ Len(text) \in 1..140
\* para is what the paragraph block did and title the caption the img
\* title gave: the alt is reached when neither returned
AltRule(parser, para, title, item_title, feed_name) ==
  IF para[1] = "return" \/ ~IsNone(title)
  THEN Res.caption = (IF para[1] = "return" THEN para[2] ELSE title)
  ELSE IF /\ Truthy(parser.image_alt)
          /\ AltPasses(Strip(parser.image_alt[1]), item_title, feed_name)
  THEN Res.caption = Some(Strip(parser.image_alt[1]))
  ELSE IsNone(Res.caption)

\* C26: the img alt is the caption only when neither the paragraph block
\* nor the img title returned, and then exactly when the trimmed alt
\* passes every check (no transcript pattern, em-dash or colon; not the
\* item title or the feed name in any letter case; not a single
\* capitalized word; none of the five generic words; not generic; length
\* 1..140); an alt failing one of them leaves the result without caption.
C26_AltLast ==
  (Ended /\ Res.is_valid /\ ~IsNone(CaptionParser))
    => AltRule(CaptionParser[1], ParagraphCaption(CaptionHtml),
               TitleCaption(CaptionParser[1]), Res.comic_title, feeds[last.entry].name)
\* the img title is a date and is passed over; the alt is the caption
C26_Witness ==
  /\ RssCase
  /\ Res.is_valid
  /\ CaptionParser[1].image_title = Some(Str("May 1, 2024"))
  /\ CaptionParser[1].image_alt = Some(Str("Two dogs talking"))
  /\ Res.caption = Some(Str("Two dogs talking"))

\* The document of the finished call cut down to its first item (entry):
\* a feed of the same type that agrees with it on the first one.
FirstOnly(doc) ==
  IF doc.root.tag = "rss"
  THEN [doc EXCEPT !.root.kids =
          [k \in 1..Len(@) |->
             IF @[k].tag = "channel"
             THEN [@[k] EXCEPT !.kids = SelectSeq(@, LAMBDA e : e.tag # "item") \o <<Item>>]
             ELSE @[k]]]
  ELSE [doc EXCEPT !.root.kids = SelectSeq(@, LAMBDA e : e.tag # "entry") \o <<Entry>>]
HasLater ==
  \/ RssCase /\ Len(RssItemsOf(Root)) > 1
  \/ AtomCase /\ Len(AtomEntries(Root)) > 1
SameComic(a, b) ==
  /\ a.is_valid = b.is_valid
  /\ a.image_url = b.image_url
  /\ a.image_source = b.image_source
  /\ a.comic_title = b.comic_title
  /\ a.link = b.link
  /\ a.caption = b.caption
  /\ a.error_message = b.error_message
AgreesWith(other) == other.t = "return" /\ SameComic(Res, other.res)

\* C27: only the first item (entry) is examined: a feed with later items
\* gets the same is_valid, image_url, image_source, comic_title, link and
\* caption as the feed of the same type that has its first item alone and
\* meets the same probe responses (so any two feeds that agree on the first
\* item get the same), and a first item without a valid image URL makes
\* the feed invalid even when a later item has one.  Stated on the results
\* validate_multiple_feeds has returned.
C27_FirstItemOnly ==
  pc = "returned" =>
    /\ HasLater =>
         AgreesWith(Alone(feeds[last.entry], FirstOnly(last.response), last.head, last.get))
    /\ (RssCase /\ FirstValid(RssCandidates) = 0) => ~Res.is_valid
    /\ (AtomCase /\ ~ValidImg(FirstImg(EntrySummary)) /\ ~ValidImg(FirstImg(EntryContent)))
         => ~Res.is_valid
\* the first item has no image, the second one has a valid enclosure: the
\* feed is invalid and nothing was probed
C27_Witness ==
  /\ pc = "returned"
  /\ RssCase
  /\ Len(RssItemsOf(Root)) = 2
  /\ FirstValid(RssCandidates) = 0
  /\ RssItemsOf(Root)[2] = SpareItem
  /\ ~ProbeSent
  /\ Res.error_message = Some(NoImageMessage)

\* the probe requests sent for the i-th entry, in order
ProbesOf(i) == SelectSeq(requests, LAMBDA r : r.entry = i /\ ~IsNone(r.referer))
ProbeLog(probes) ==
  /\ Len(probes) <= 2
  /\ Len(probes) >= 1 => probes[1].method = "HEAD" /\ SchemeAndHost(probes[1].url)
  /\ Len(probes) = 2 => probes[2].method = "GET" /\ probes[2].url = probes[1].url
\* the step sends the GET retry
RetrySent ==
  /\ Len(requests') = Len(requests) + 1
  /\ requests'[Len(requests')].method = "GET"
  /\ ~IsNone(requests'[Len(requests')].referer)
Refused(r) == ~r.exc /\ r.status >= 400
Inaccessible ==
  \/ last.head.status = 403 /\ ~last.head.exc
  \/ Refused(last.head) /\ GetSent /\ Refused(last.get)

\* C28: for every feed of the batch at most one image URL is probed, it has
\* a scheme and a host, and the probe is one HEAD followed by at most one
\* GET for the same URL; the GET is sent only in the step in which the HEAD
\* answered with a status >= 400 other than 403 (never after a 403, a
\* status below 400 or a HEAD exception); a feed whose probed image is
\* inaccessible ends invalid with the hotlink message and nothing else was
\* probed for it.
C28_ProbeProtocol ==
  /\ [](/\ \A i \in 1..Len(feeds) : ProbeLog(ProbesOf(i))
        /\ (Ended /\ ProbeSent /\ Inaccessible) =>
             /\ ~Res.is_valid
             /\ Res.error_message = Some(HotlinkMessage)
             /\ \A k \in ProbeRequests("HEAD") \cup ProbeRequests("GET") :
                  requests[k].url = ProbesOf(last.entry)[1].url)
  /\ [][RetrySent =>
          /\ pc = "image_head"
          /\ Refused(head') /\ head'.status # 403
          /\ requests[Len(requests)]
               = [requests'[Len(requests')] EXCEPT !.method = "HEAD"]]_vars
\* the enclosure image is refused on HEAD and on the retry: the feed is
\* invalid and the image of its description was never probed
C28_Witness ==
  /\ RssCase
  /\ ItemEnclosure = Some(ImgA)
  /\ ValidImg(FirstImg(ItemDescription))
  /\ last.head = [exc |-> FALSE, status |-> 500]
  /\ last.get = [exc |-> FALSE, status |-> 403]
  /\ Len(ProbesOf(last.entry)) = 2
  /\ Res.error_message = Some(HotlinkMessage)

\* the k-th request is the first one sent for its entry
FirstOfEntry(k) == k = 1 \/ requests[k - 1].entry # requests[k].entry

\* C29: every probe request (HEAD and GET retry) carries as Referer the
\* URL of the feed being validated, never that of another feed of the
\* batch; no step of validate_feed changes the session's default headers
\* or the timeout, which stay as __init__ left them, so the GET of every
\* feed carries no Referer.
C29_RefererScoped ==
  /\ [](/\ \A k \in 1..Len(requests) :
             IF FirstOfEntry(k)
             THEN /\ requests[k].method = "GET"
                  /\ requests[k].url = feeds[requests[k].entry].url
                  /\ IsNone(requests[k].referer)
             ELSE /\ requests[k].referer = Some(feeds[requests[k].entry].url)
                  /\ \A j \in 1..Len(feeds) :
                       j # requests[k].entry => requests[k].referer # Some(feeds[j].url)
        /\ IsNone(AttrGet(session.headers, "Referer"))
        /\ Len(session.headers) = 1
        /\ session.timeout = 10)
  /\ [][session' = session]_vars
\* two feeds probed one after the other: each probe names its own feed and
\* the second feed's GET carries no Referer
C29_Witness ==
  /\ pc = "returned"
  /\ Len(feeds) = 2
  /\ Len(requests) = 5
  /\ requests[2].referer = Some(FeedUrl(1))
  /\ requests[3] = Request("GET", FeedUrl(2), None, 2)
  /\ requests[4].referer = Some(FeedUrl(2))
  /\ requests[5] = [requests[4] EXCEPT !.method = "GET"]

\* C30: a run of create_updated_settings whose valid lists are all empty
\* ends with exit status 1 and has written nothing: not settings.yml, not
\* the failed-feeds report, not the overview JSON or HTML, not the Atom
\* demo feed.
C30_ZeroValidWritesNothing ==
  (run.pc = "exit" /\ Total(run.valid) = 0) => run.status = 1 /\ run.written = {}
\* no feed is valid and some failed: the run aborts after it has written
\* the report and rewritten settings.yml
C30_Witness ==
  /\ run.pc = "exit"
  /\ Total(run.valid) = 0
  /\ Total(run.invalid) > 0
  /\ run.status = 1
  /\ run.error = "ABORT: Zero valid feeds"
  /\ run.written = {"data/failed_feeds_report.yml", "plugin/settings.yml"}

====
